---------------------------- MODULE Spec2Model ----------------------------
(***************************************************************************)
(* A model of mssql/compiler.py: the SQL Server statement compilers of     *)
(* mssql-django (SELECT with pagination, INSERT with identity override,    *)
(* UPDATE, the GROUP BY legalizer, the expression rewrite rules and the    *)
(* alias reference count save/restore around SELECT compilation), with    *)
(* the default-values bulk insert as the database runs it, the pad         *)
(* rewrites as the database evaluates them, the schema qualification of    *)
(* FROM fragments and the cursor adapter _cursor_iter.                     *)
(*                                                                         *)
(* SQL text is a sequence of tokens.  A token is a record [k, s, n]: k is  *)
(* the kind of the token, s its text and n the numbers printed in it.  A   *)
(* positional placeholder ("%s" in the source) is a token of kind "ph";    *)
(* its s field records the bind value of the operand whose compilation     *)
(* wrote it, so that the text can be compared with the parameter list.     *)
(***************************************************************************)
EXTENDS Integers, Sequences, FiniteSets, TLC

VARIABLES
    \* SELECT compilation (SQLCompiler.as_sql): the call and what it gave
    query, connection, args, ret, pc,
    \* The alias reference counts of a query object shared by the compilations
    \* of `threads`: query.alias_refcount, query.table_map, what the query asks
    \* of them (rq), each compilation's own state (th), and the counts before
    \* any compilation (counts0), whether two compilations overlapped
    alias_refcount, table_map, rq, threads, th, counts0, overlapped,
    \* INSERT compilation (SQLInsertCompiler.as_sql): the insert query with the
    \* connection's features, and the statements returned
    insert_query, insert_connection, insert_ret,
    \* The GROUP BY legalizer: the expressions given, the loop's position in
    \* them, the list it builds (ret) and where it stands
    legalizer,
    \* Expression nodes and the operand lists they hold (heap), and one
    \* compile(node) call on them (rewrite)
    heap, rewrite,
    \* UPDATE compilation (SQLUpdateCompiler.as_sql): the query and the result
    update_query, update_ret,
    \* The default-values bulk insert: the objects given, the statement built
    \* for them and the rows the database inserted when it ran the statement
    bulk,
    \* One evaluation of a pad rewrite by the database
    pad,
    \* One FROM fragment given to the schema qualification of get_from_clause
    from_clause,
    \* The cursor adapter (_cursor_iter): the database cursor, the generator's
    \* frame, the consumer of the generator, and the order of what happened
    cursor, gen, consumer, log

selVars == <<query, connection, args, ret, pc>>
rcVars == <<alias_refcount, table_map, rq, threads, th, counts0, overlapped>>
insVars == <<insert_query, insert_connection, insert_ret>>
gbVars == <<legalizer>>
rwVars == <<heap, rewrite>>
updVars == <<update_query, update_ret>>
bulkVars == <<bulk>>
padVars == <<pad>>
fromVars == <<from_clause>>
curVars == <<cursor, gen, consumer, log>>

compilerVars == <<selVars, rcVars, insVars, gbVars, rwVars, updVars>>
vars == <<compilerVars, bulkVars, padVars, fromVars, curVars>>
\* What a step of one part of the compiler leaves alone: the other parts
notSelVars ==
    <<rcVars, insVars, gbVars, rwVars, updVars, bulkVars, padVars, fromVars, curVars>>
notRcVars ==
    <<selVars, insVars, gbVars, rwVars, updVars, bulkVars, padVars, fromVars, curVars>>
notInsVars ==
    <<selVars, rcVars, gbVars, rwVars, updVars, bulkVars, padVars, fromVars, curVars>>
notGbVars ==
    <<selVars, rcVars, insVars, rwVars, updVars, bulkVars, padVars, fromVars, curVars>>
notRwVars ==
    <<selVars, rcVars, insVars, gbVars, updVars, bulkVars, padVars, fromVars, curVars>>
notUpdVars ==
    <<selVars, rcVars, insVars, gbVars, rwVars, bulkVars, padVars, fromVars, curVars>>
notBulkVars == <<compilerVars, padVars, fromVars, curVars>>
notPadVars == <<compilerVars, bulkVars, fromVars, curVars>>
notFromVars == <<compilerVars, bulkVars, padVars, curVars>>
notCurVars == <<compilerVars, bulkVars, padVars, fromVars>>

-----------------------------------------------------------------------------
(* Tokens and compiled fragments *)

Token(k, s, n) == [k |-> k, s |-> s, n |-> n]
Kw(s) == Token("kw", s, <<>>)
Ph(v) == Token("ph", v, <<>>)

Frag(sql, params) == [sql |-> sql, params |-> params]
EmptyFrag == Frag(<<>>, <<>>)

\* The tokens of kind k in a text, left to right
TokensOf(sql, k) == SelectSeq(sql, LAMBDA t : t.k = k)
HasToken(sql, k) == \E i \in 1..Len(sql) : sql[i].k = k

\* The bind values the placeholders of a text stand for, left to right
Placeholders(sql) ==
    LET phs == TokensOf(sql, "ph")
    IN  [i \in 1..Len(phs) |-> phs[i].s]

RECURSIVE Flatten(_)
Flatten(seqs) ==
    IF seqs = <<>> THEN <<>> ELSE Head(seqs) \o Flatten(Tail(seqs))

\* sep.join(texts) on token sequences
RECURSIVE Join(_, _)
Join(texts, sep) ==
    IF texts = <<>> THEN <<>>
    ELSE IF Len(texts) = 1 THEN Head(texts)
    ELSE Head(texts) \o <<sep>> \o Join(Tail(texts), sep)

Comma == Kw(",")


-----------------------------------------------------------------------------
(* The expression rewrite rules that repeat their operands.  Each operand  *)
(* is the fragment compiler.compile() gave for it.                         *)

\* LEFT(LEFT(REPLICATE(fill, length), CASE WHEN length > LEN(expression)
\* THEN length - LEN(expression) ELSE 0 END) + expression, length)
_as_sql_lpad(expression, length, fill_text) ==
    Frag(<<Kw("LEFT(LEFT(REPLICATE(")>> \o fill_text.sql \o <<Comma>> \o length.sql
            \o <<Kw("), CASE WHEN")>> \o length.sql \o <<Kw("> LEN(")>>
            \o expression.sql \o <<Kw(") THEN")>> \o length.sql \o <<Kw("- LEN(")>>
            \o expression.sql \o <<Kw(") ELSE 0 END) +")>> \o expression.sql
            \o <<Comma>> \o length.sql \o <<Kw(")")>>,
         fill_text.params \o length.params \o length.params \o expression.params
            \o length.params \o expression.params \o expression.params
            \o length.params)

\* LEFT(expression + REPLICATE(fill, length), length)
_as_sql_rpad(expression, length, fill_text) ==
    Frag(<<Kw("LEFT(")>> \o expression.sql \o <<Kw("+ REPLICATE(")>>
            \o fill_text.sql \o <<Comma>> \o length.sql \o <<Kw("),")>>
            \o length.sql \o <<Kw(")")>>,
         expression.params \o fill_text.params \o length.params \o length.params)

\* COALESCE(JSON_QUERY(lhs, 'path'), JSON_VALUE(lhs, 'path')): (lhs, json_path) * 2
\* in the text, tuple(params) * 2 in the parameters
_as_sql_json_keytransform(lhs, json_path) ==
    Frag(<<Kw("COALESCE(JSON_QUERY(")>> \o lhs.sql \o <<Comma, Kw(json_path)>>
            \o <<Kw("), JSON_VALUE(")>> \o lhs.sql \o <<Comma, Kw(json_path)>>
            \o <<Kw("))")>>,
         lhs.params \o lhs.params)

-----------------------------------------------------------------------------
(* SQLCompiler.as_sql: what a call gives *)

Raise(exc, msg) ==
    [status |-> "raise", exc |-> exc, msg |-> msg, sql |-> <<>>, params |-> <<>>]
Return(sql, params) ==
    [status |-> "return", exc |-> "", msg |-> "", sql |-> sql, params |-> params]
NoResult ==
    [status |-> "", exc |-> "", msg |-> "", sql |-> <<>>, params |-> <<>>]

\* django.VERSION >= v, on (major, minor)
VersionGE(version, v) ==
    version[1] > v[1] \/ (version[1] = v[1] /\ version[2] >= v[2])

\* One entry of self.select + extra_select, (select, (s_sql, s_params), alias):
\* expr is what select.as_sql() gives, the expression rendered without the
\* rewrite rules.  One entry of order_by, (expr, (o_sql, o_params, _)): expr is
\* "none" for the synthesized entry, else the kind of the ordering's source
\* expression, and src is what as_sql() of the expression a Ref names gives.
SelectEntry(expr, sql, params, alias) ==
    [expr |-> expr, sql |-> sql, params |-> params, alias |-> alias]
OrderEntry(expr, sql, params, descending, src) ==
    [expr |-> expr, sql |-> sql, params |-> params, descending |-> descending,
     src |-> src]

quote_name(name) == Kw("[" \o name \o "]")

\* lines 223-229
do_limit(q, with_limits) == with_limits /\ q.high_mark # <<>>
do_offset(q, with_limits) == with_limits /\ q.low_mark # 0
supports_offset_clause(c) == c.sql_server_version >= 2012
do_offset_emulation(q, c, with_limits) ==
    do_offset(q, with_limits) /\ ~supports_offset_clause(c)
with_limit_offset(q, with_limits) ==
    with_limits /\ (q.high_mark # <<>> \/ q.low_mark # 0)

\* A limiting keyword that is written whenever there is a limit
TopWheneverLimited(q, with_limits) ==
    IF do_limit(q, with_limits)
    THEN <<Token("top", "TOP", q.high_mark)>>
    ELSE <<>>

\* lines 272-274: the keyword for limiting, at the beginning
TopClause(q, with_limits) ==
    IF do_limit(q, with_limits) /\ ~do_offset(q, with_limits)
    THEN <<Token("top", "TOP", q.high_mark)>>
    ELSE <<>>

\* lines 276-285: the select list, each entry with its alias
ColN(col_idx) == Kw("Col" \o ToString(col_idx))

RECURSIVE OutCols(_, _, _)
OutCols(entries, col_idx, alias_all) ==
    IF entries = <<>> THEN <<>>
    ELSE LET e == Head(entries)
         IN  IF e.alias # ""
             THEN <<Frag(e.sql \o <<Kw("AS"), quote_name(e.alias)>>, e.params)>>
                      \o OutCols(Tail(entries), col_idx, alias_all)
             ELSE IF alias_all
             THEN <<Frag(e.sql \o <<Kw("AS"), ColN(col_idx)>>, e.params)>>
                      \o OutCols(Tail(entries), col_idx + 1, alias_all)
             ELSE <<Frag(e.sql, e.params)>>
                      \o OutCols(Tail(entries), col_idx, alias_all)

Sqls(frags) == [i \in 1..Len(frags) |-> frags[i].sql]
Params(frags) == Flatten([i \in 1..Len(frags) |-> frags[i].params])

\* lines 289-292: the driving table's primary key
offsetting_order_by(q) ==
    <<quote_name(q.meta.db_table), Kw("."), quote_name(q.meta.pk)>>

\* lines 296-307: one ordering term of the ROW_NUMBER() OVER clause.  A term that
\* refers to a select-list alias is replaced by the text of the expression the
\* alias names, "o_sql, _ = src.as_sql(...)", and the parameters extended are
\* still o_params, those of the alias reference.
EmulatedOrderTerm(o) ==
    IF o.expr = "ref"
    THEN Frag(o.src.sql \o <<Kw(IF o.descending THEN "DESC" ELSE "ASC")>>, o.params)
    ELSE Frag(o.sql, o.params)

EmulatedOrdering(order_by) ==
    [i \in 1..Len(order_by) |-> EmulatedOrderTerm(order_by[i])]

\* lines 378-384: one term of the statement's ORDER BY; RAND() becomes NEWID()
OrderTerm(o) ==
    IF o.expr = "random"
    THEN Frag([i \in 1..Len(o.sql) |->
                  IF o.sql[i] = Kw("RAND()") THEN Kw("NEWID()") ELSE o.sql[i]],
              o.params)
    ELSE Frag(o.sql, o.params)

Ordering(order_by) == [i \in 1..Len(order_by) |-> OrderTerm(order_by[i])]

-----------------------------------------------------------------------------
(* The collaborators as_sql calls *)

\* connection.ops.distinct_sql: DISTINCT, and no DISTINCT ON fields
distinct_sql(fields) ==
    IF fields # <<>>
    THEN Raise("NotSupportedError",
               "DISTINCT ON fields is not supported by this database backend")
    ELSE Return(<<Kw("DISTINCT")>>, <<>>)

\* connection.ops.for_update_sql: the table hint that locks the rows read
for_update_sql(nowait, skip_locked) ==
    IF skip_locked THEN <<Token("lock", "WITH (ROWLOCK, UPDLOCK, READPAST)", <<>>)>>
    ELSE IF nowait THEN <<Token("lock", "WITH (NOWAIT, ROWLOCK, UPDLOCK)", <<>>)>>
    ELSE <<Token("lock", "WITH (ROWLOCK, UPDLOCK)", <<>>)>>

\* connection.ops.limit_offset_sql: OFFSET low ROWS, then FETCH FIRST n ROWS ONLY
\* when there is a limit, n = high - low
limit_offset_sql(low_mark, high_mark) ==
    LET offset == low_mark
        limit == IF high_mark # <<>> THEN <<high_mark[1] - offset>> ELSE <<>>
    IN  (IF offset # 0 THEN <<Token("offset", "OFFSET ROWS", <<offset>>)>> ELSE <<>>)
        \o (IF limit # <<>> /\ limit # <<0>>
            THEN <<Token("fetch", "FETCH FIRST ROWS ONLY", limit)>> ELSE <<>>)

\* self.get_combinator_sql: the combined queries' statements, joined by the
\* combinator, with their parameters
get_combinator_sql(q) ==
    Frag(Join(Sqls(q.combined_queries), Kw(q.combinator)), Params(q.combined_queries))

\* self.get_qualify_sql: the statement without its window filter as a derived
\* table, filtered by the window predicate, then ordered
get_qualify_sql(q, order_by) ==
    LET inner == Frag(<<Kw("SELECT")>> \o Join(Sqls(OutCols(q.select, 1, TRUE)), Comma)
                          \o <<Kw("FROM")>> \o Flatten(q.from_),
                      Params(OutCols(q.select, 1, TRUE)) \o q.f_params)
        ordering == Ordering(order_by)
    IN  Frag(<<Kw("SELECT * FROM (")>> \o inner.sql \o <<Kw(")"), quote_name("qualify"),
               Kw("WHERE")>> \o q.qualify_sql.sql
               \o (IF order_by # <<>>
                   THEN <<Token("orderby", "ORDER BY", <<>>)>>
                            \o Join(Sqls(ordering), Comma)
                   ELSE <<>>),
             inner.params \o q.qualify_sql.params \o Params(ordering))

\* lines 244-260: self.compile(self.where), self.compile(self.having)
CompileWhere(q, c) ==
    CASE q.where.kind = "none" -> Return(<<>>, <<>>)
      [] q.where.kind = "sql" -> Return(q.where.sql, q.where.params)
      [] q.where.kind = "full" -> Return(<<>>, <<>>)
      [] q.where.kind = "empty" ->
            IF VersionGE(c.django, <<4, 2>>) /\ ~q.elide_empty
            THEN Return(<<Kw("0 = 1")>>, <<>>)
            ELSE Raise("EmptyResultSet", "")

CompileHaving(q) ==
    IF q.having = <<>> THEN EmptyFrag ELSE q.having[1]

\* Row locking that does not ask whether NOWAIT is supported
LockingWithoutNowaitCheck(q, c, with_limits) ==
    IF q.select_for_update /\ c.features.has_select_for_update
    THEN IF c.autocommit
         THEN Raise("TransactionManagementError",
                    "select_for_update cannot be used outside of a transaction.")
         ELSE IF with_limit_offset(q, with_limits)
                   /\ ~c.features.supports_select_for_update_with_limit
         THEN Raise("NotSupportedError",
                    "LIMIT/OFFSET is not supported with select_for_update on this database backend.")
         ELSE IF q.select_for_update_skip_locked
                   /\ ~c.features.has_select_for_update_skip_locked
         THEN Raise("NotSupportedError",
                    "SKIP LOCKED is not supported on this database backend.")
         ELSE IF q.select_for_update_of # <<>> /\ ~c.features.has_select_for_update_of
         THEN Raise("NotSupportedError",
                    "FOR UPDATE OF is not supported on this database backend.")
         ELSE Return(for_update_sql(q.select_for_update_nowait,
                                    q.select_for_update_skip_locked), <<>>)
    ELSE Return(<<>>, <<>>)

\* lines 314-339: row locking.  What it returns is for_update_part.
Locking(q, c, with_limits) ==
    IF q.select_for_update /\ c.features.has_select_for_update
    THEN IF c.autocommit
         THEN Raise("TransactionManagementError",
                    "select_for_update cannot be used outside of a transaction.")
         ELSE IF with_limit_offset(q, with_limits)
                   /\ ~c.features.supports_select_for_update_with_limit
         THEN Raise("NotSupportedError",
                    "LIMIT/OFFSET is not supported with select_for_update on this database backend.")
         ELSE IF q.select_for_update_nowait /\ ~c.features.has_select_for_update_nowait
         THEN Raise("NotSupportedError",
                    "NOWAIT is not supported on this database backend.")
         ELSE IF q.select_for_update_skip_locked
                   /\ ~c.features.has_select_for_update_skip_locked
         THEN Raise("NotSupportedError",
                    "SKIP LOCKED is not supported on this database backend.")
         ELSE IF q.select_for_update_of # <<>> /\ ~c.features.has_select_for_update_of
         THEN Raise("NotSupportedError",
                    "FOR UPDATE OF is not supported on this database backend.")
         ELSE Return(for_update_sql(q.select_for_update_nowait,
                                    q.select_for_update_skip_locked), <<>>)
    ELSE Return(<<>>, <<>>)

-----------------------------------------------------------------------------
(* SQLCompiler.as_sql, lines 204-441 *)

\* What a branch of lines 231-365 leaves: result, params and order_by
BranchOk(result, params, order_by) ==
    [status |-> "ok", exc |-> "", msg |-> "", result |-> result, params |-> params,
     order_by |-> order_by]
BranchRaise(r) ==
    [status |-> "raise", exc |-> r.exc, msg |-> r.msg, result |-> <<>>,
     params |-> <<>>, order_by |-> <<>>]

\* from_.insert(1, for_update_part)
InsertAt1(from_, part) ==
    IF from_ = <<>> THEN <<part>> ELSE <<Head(from_), part>> \o Tail(from_)

\* line 312: the ordering synthesized for a native offset without an ordering
PkOrdering(q) ==
    OrderEntry("none", offsetting_order_by(q) \o <<Kw("ASC")>>, <<>>, FALSE, EmptyFrag)

\* lines 293-310: the rank column of the emulation
RowNumberColumn(q, order_by) ==
    LET ordering == EmulatedOrdering(order_by)
    IN  Frag(<<Token("rownumber", "ROW_NUMBER() OVER (ORDER BY", <<>>)>>
                \o (IF order_by # <<>> THEN Join(Sqls(ordering), Comma)
                    ELSE offsetting_order_by(q))
                \o <<Kw(") AS [rn]")>>,
             IF order_by # <<>> THEN Params(ordering) ELSE <<>>)

\* lines 240-365: a select that is neither a combinator nor a qualify statement
PlainSelect(q, c, extra_select, order_by, group_by, with_limits, with_col_aliases) ==
    LET where == CompileWhere(q, c)
        having == CompileHaving(q)
        distinct == IF q.distinct THEN distinct_sql(q.distinct_fields)
                    ELSE Return(<<>>, <<>>)
        emulate == do_offset_emulation(q, c, with_limits)
        cols == OutCols(q.select \o extra_select, 1, with_col_aliases \/ emulate)
        out_cols == IF emulate THEN cols \o <<RowNumberColumn(q, order_by)>> ELSE cols
        order_by1 == IF ~do_offset(q, with_limits) THEN order_by
                     ELSE IF emulate THEN <<>>
                     ELSE IF order_by = <<>> THEN <<PkOrdering(q)>>
                     ELSE order_by
        lock == Locking(q, c, with_limits)
        from_ == IF lock.sql # <<>> /\ c.features.for_update_after_from
                 THEN InsertAt1(q.from_, lock.sql) ELSE q.from_
    IN  IF where.status = "raise" THEN BranchRaise(where)
        ELSE IF distinct.status = "raise" THEN BranchRaise(distinct)
        ELSE IF lock.status = "raise" THEN BranchRaise(lock)
        ELSE IF group_by # <<>> /\ q.distinct_fields # <<>>
        THEN BranchRaise(Raise("NotImplementedError",
                               "annotate() + distinct(fields) is not implemented."))
        ELSE BranchOk(
                <<Token("select", "SELECT", <<>>)>> \o distinct.sql
                    \o TopClause(q, with_limits)
                    \o Join(Sqls(out_cols), Comma)
                    \o (IF from_ # <<>> THEN <<Kw("FROM")>> \o Flatten(from_) ELSE <<>>)
                    \o (IF where.sql # <<>> THEN <<Kw("WHERE")>> \o where.sql ELSE <<>>)
                    \o (IF group_by # <<>>
                        THEN <<Kw("GROUP BY")>> \o Join(Sqls(group_by), Comma) ELSE <<>>)
                    \o (IF having.sql # <<>> THEN <<Kw("HAVING")>> \o having.sql
                        ELSE <<>>),
                distinct.params \o Params(out_cols) \o q.f_params
                    \o (IF where.sql # <<>> THEN where.params ELSE <<>>)
                    \o Params(group_by)
                    \o (IF having.sql # <<>> THEN having.params ELSE <<>>),
                order_by1)

\* A rank filter that counts the rows from 0
RankFilterFromZero(q, with_limits) ==
    IF do_limit(q, with_limits)
    THEN <<Token("between", "BETWEEN AND", <<q.low_mark, q.high_mark[1]>>)>>
    ELSE <<Token("ge", ">=", <<q.low_mark>>)>>

\* lines 403-408: the rank filter of the emulation
RankFilter(q, with_limits) ==
    IF do_limit(q, with_limits)
    THEN <<Token("between", "BETWEEN AND", <<q.low_mark + 1, q.high_mark[1]>>)>>
    ELSE <<Token("ge", ">=", <<q.low_mark + 1>>)>>

\* lines 397-410: the offset, emulated or native
OffsetClause(q, c, result, with_limits) ==
    IF ~do_offset(q, with_limits) THEN result
    ELSE IF do_offset_emulation(q, c, with_limits)
    THEN <<Token("wrap", "SELECT * FROM (", <<>>)>> \o result
            \o <<Token("wrapend", ") AS X WHERE X.rn", <<>>)>>
            \o RankFilter(q, with_limits)
            \o (IF ~q.subquery THEN <<Token("orderby", "ORDER BY X.rn", <<>>)>>
                ELSE <<>>)
    ELSE result \o limit_offset_sql(q.low_mark, q.high_mark)

\* lines 419-433: the columns of the statement that hides the extra selects
RECURSIVE SubSelects(_, _, _)
SubSelects(select, index, with_col_aliases) ==
    IF select = <<>> THEN <<>>
    ELSE LET e == Head(select)
             alias == IF e.alias = "" /\ with_col_aliases
                      THEN "col" \o ToString(index) ELSE e.alias
         IN  <<IF alias # ""
               THEN Frag(<<quote_name("subquery"), Kw("."), quote_name(alias)>>, <<>>)
               ELSE e.expr>>
             \o SubSelects(Tail(select), index + 1, with_col_aliases)

\* lines 367-438: what follows the branches
FinishSelect(q, c, b, extra_select, with_limits, with_col_aliases) ==
    LET explained == IF q.explain THEN <<Kw("EXPLAIN")>> \o b.result ELSE b.result
        ordering == Ordering(b.order_by)
        ordered ==
            IF b.order_by = <<>> THEN explained
            ELSE explained \o <<Token("orderby", "ORDER BY", <<>>)>>
                    \o Join(Sqls(ordering), Comma)
                    \o (IF ~(do_offset(q, with_limits) \/ do_limit(q, with_limits))
                           /\ supports_offset_clause(c)
                        THEN <<Token("offset", "OFFSET ROWS", <<0>>)>> ELSE <<>>)
        params == b.params \o Params(ordering)
        result == OffsetClause(q, c, ordered, with_limits)
        sub_selects == SubSelects(q.select, 1, with_col_aliases)
    IN  IF q.explain /\ ~c.features.supports_explaining_query_execution
        THEN Raise("NotSupportedError",
                   "This backend does not support explaining query execution.")
        ELSE IF q.subquery /\ extra_select # <<>>
        THEN Return(<<Kw("SELECT")>> \o Join(Sqls(sub_selects), Comma)
                        \o <<Kw("FROM (")>> \o result \o <<Kw(") subquery")>>,
                    Params(sub_selects) \o params)
        ELSE Return(result, params)

as_sql(q, c, with_limits, with_col_aliases) ==
    LET extra_select == q.extra_select
        order_by == q.order_by
        group_by == q.group_by
        combined == get_combinator_sql(q)
        qualified == get_qualify_sql(q, order_by)
        b == IF q.combinator # ""
             THEN IF ~c.features.supports_select_combinator
                  THEN BranchRaise(Raise("NotSupportedError",
                          q.combinator \o " is not supported on this database backend."))
                  ELSE BranchOk(combined.sql, combined.params, order_by)
             ELSE IF VersionGE(c.django, <<4, 2>>) /\ q.qualify
             THEN BranchOk(qualified.sql, qualified.params, <<>>)
             ELSE PlainSelect(q, c, extra_select, order_by, group_by, with_limits,
                              with_col_aliases)
    IN  IF b.status = "raise" THEN Raise(b.exc, b.msg)
        ELSE FinishSelect(q, c, b, extra_select, with_limits, with_col_aliases)

-----------------------------------------------------------------------------
(* The statements compiled: the inputs of SQLCompiler.as_sql *)

Col(name) == Frag(<<quote_name(name)>>, <<>>)
\* An operand that compiles to one placeholder, bound to v
Bound(v) == Frag(<<Ph(v)>>, <<v>>)

\* The generic rendering of a function, FUNCTION(operand, ...)
GenericFunc(function, operands) ==
    Frag(<<Kw(function \o "(")>> \o Join(Sqls(operands), Comma) \o <<Kw(")")>>,
         Params(operands))

\* A select-list entry for an expression whose generic rendering is expr and
\* whose compilation, through the rewrite rules, is compiled
Entry(expr, compiled, alias) == SelectEntry(expr, compiled.sql, compiled.params, alias)

ColEntry(alias) == Entry(Col("a"), Col("a"), alias)
LPadEntry ==
    Entry(GenericFunc("LPAD", <<Col("a"), Bound("len"), Bound("fill")>>),
          _as_sql_lpad(Col("a"), Bound("len"), Bound("fill")), "")
RPadEntry ==
    Entry(GenericFunc("RPAD", <<Bound("src"), Bound("len"), Frag(<<Kw("' '")>>, <<>>)>>),
          _as_sql_rpad(Bound("src"), Bound("len"), Frag(<<Kw("' '")>>, <<>>)), "padded")
JsonEntry ==
    Entry(GenericFunc("JSON_EXTRACT", <<Bound("doc"), Frag(<<Kw("'$.k'")>>, <<>>)>>),
          _as_sql_json_keytransform(Bound("doc"), "'$.k'"), "")

Selects ==
    { <<ColEntry("")>>, <<ColEntry(""), LPadEntry>>, <<RPadEntry>>,
      <<JsonEntry, ColEntry("named")>> }

ExtraSelects ==
    { <<>>,
      <<Entry(Frag(<<quote_name("b"), Kw("+"), Ph("x1")>>, <<"x1">>),
              Frag(<<quote_name("b"), Kw("+"), Ph("x1")>>, <<"x1">>), "extra1")>> }

OrderCol == OrderEntry("col", <<quote_name("a"), Kw("ASC")>>, <<>>, FALSE, EmptyFrag)
OrderExpr ==
    OrderEntry("expr", <<quote_name("a"), Kw("+"), Ph("o1"), Kw("DESC")>>, <<"o1">>,
               TRUE, EmptyFrag)
\* An ordering by the alias of select-list entry e: the alias compiles to its
\* quoted name, the expression it names to what the entry compiled to
OrderRef(e) ==
    OrderEntry("ref", <<quote_name(e.alias), Kw("ASC")>>, <<>>, FALSE, e.expr)
OrderRandom == OrderEntry("random", <<Kw("RAND()"), Kw("ASC")>>, <<>>, FALSE, EmptyFrag)

\* The orderings of a query with the given select list
OrderBys(select) ==
    { <<>>, <<OrderCol>>, <<OrderExpr>>, <<OrderRandom>>, <<OrderCol, OrderExpr>> }
    \cup { <<OrderRef(select[i])>> : i \in {j \in 1..Len(select) : select[j].alias # ""} }

WhereNone == [kind |-> "none", sql |-> <<>>, params |-> <<>>]
WhereSql ==
    [kind |-> "sql", sql |-> <<quote_name("a"), Kw("="), Ph("w1")>>, params |-> <<"w1">>]
WhereEmpty == [kind |-> "empty", sql |-> <<>>, params |-> <<>>]
WhereFull == [kind |-> "full", sql |-> <<>>, params |-> <<>>]

Havings == { <<>>, <<Frag(<<Kw("COUNT_BIG(*) >"), Ph("h1")>>, <<"h1">>)>> }
GroupBys == { <<>>, <<Frag(<<quote_name("a"), Kw("+"), Ph("g1")>>, <<"g1">>)>> }

FromTable == [from_ |-> <<<<quote_name("t")>>>>, f_params |-> <<>>]
FromJoin ==
    [from_ |-> <<<<quote_name("t")>>,
                 <<Kw("INNER JOIN"), quote_name("u"), Kw("ON"), quote_name("x"),
                   Kw("="), Ph("f1")>>>>,
     f_params |-> <<"f1">>]

CombinedQueries ==
    <<Frag(<<Kw("SELECT [a] FROM [t] WHERE [a] ="), Ph("c1")>>, <<"c1">>),
      Frag(<<Kw("SELECT [a] FROM [u] WHERE [a] ="), Ph("c2")>>, <<"c2">>)>>

Lows == {0, 3}
Highs == {<<>>, <<5>>, <<100>>}

\* A plain select of one column from one table, nothing else asked of it
BaseQuery ==
    [high_mark |-> <<>>, low_mark |-> 0, combinator |-> "", combined_queries |-> <<>>,
     qualify |-> FALSE,
     qualify_sql |-> Frag(<<quote_name("rank"), Kw("="), Ph("q1")>>, <<"q1">>),
     distinct |-> FALSE, distinct_fields |-> <<>>,
     select |-> <<ColEntry("")>>, extra_select |-> <<>>,
     order_by |-> <<>>, group_by |-> <<>>, where |-> WhereNone, elide_empty |-> FALSE,
     having |-> <<>>, from_ |-> FromTable.from_, f_params |-> <<>>,
     subquery |-> FALSE, explain |-> FALSE,
     select_for_update |-> FALSE, select_for_update_nowait |-> FALSE,
     select_for_update_skip_locked |-> FALSE, select_for_update_of |-> <<>>,
     meta |-> [db_table |-> "t", pk |-> "id"]]

BaseFeatures ==
    [supports_select_combinator |-> TRUE, supports_explaining_query_execution |-> FALSE,
     has_select_for_update |-> TRUE, supports_select_for_update_with_limit |-> FALSE,
     has_select_for_update_nowait |-> TRUE, has_select_for_update_skip_locked |-> TRUE,
     has_select_for_update_of |-> FALSE, for_update_after_from |-> TRUE]

BaseConnection ==
    [sql_server_version |-> 2012, django |-> <<4, 2>>, autocommit |-> FALSE,
     features |-> BaseFeatures]

Versions == {2008, 2012}

\* The statement kinds: plain, combinator and qualify
Kinds == {"plain", "union", "qualify"}
OfKind(q, kind) ==
    CASE kind = "plain" -> q
      [] kind = "union" ->
            [q EXCEPT !.combinator = "UNION", !.combined_queries = CombinedQueries]
      [] kind = "qualify" -> [q EXCEPT !.qualify = TRUE]

Distincts == {<<FALSE, <<>>>>, <<TRUE, <<>>>>, <<TRUE, <<"a">>>>}

Call(q, c, with_limits, with_col_aliases) ==
    /\ query = q
    /\ connection = c
    /\ args = [with_limits |-> with_limits, with_col_aliases |-> with_col_aliases]

\* Pagination under every statement kind, ordering, select list and distinct
PaginationCalls ==
    \E kind \in Kinds, low \in Lows, high \in Highs, select \in Selects,
       distinct \in Distincts, subquery \in BOOLEAN,
       version \in Versions, with_limits \in BOOLEAN, with_col_aliases \in BOOLEAN :
      \E order_by \in OrderBys(select) :
        Call([OfKind(BaseQuery, kind) EXCEPT
                 !.low_mark = low, !.high_mark = high, !.order_by = order_by,
                 !.select = select, !.distinct = distinct[1],
                 !.distinct_fields = distinct[2], !.subquery = subquery],
             [BaseConnection EXCEPT !.sql_server_version = version],
             with_limits, with_col_aliases)

\* Every clause of a plain select, with and without an offset
ClauseCalls ==
    \E low \in Lows, high \in {<<>>, <<5>>}, select \in Selects,
       extra_select \in ExtraSelects, where \in {WhereNone, WhereSql, WhereEmpty},
       having \in Havings, group_by \in GroupBys, from \in {FromTable, FromJoin},
       subquery \in BOOLEAN, version \in Versions :
      \E order_by \in OrderBys(select) :
        Call([BaseQuery EXCEPT
                 !.low_mark = low, !.high_mark = high, !.order_by = order_by,
                 !.select = select, !.extra_select = extra_select,
                 !.where = where, !.having = having, !.group_by = group_by,
                 !.from_ = from.from_, !.f_params = from.f_params,
                 !.subquery = subquery],
             [BaseConnection EXCEPT !.sql_server_version = version],
             TRUE, FALSE)

\* EXPLAIN, the Django versions, and a WHERE that matches nothing or everything
OtherCalls ==
    \E kind \in Kinds, explain \in BOOLEAN, explaining \in BOOLEAN,
       where \in {WhereNone, WhereSql, WhereEmpty, WhereFull},
       elide_empty \in BOOLEAN, low \in Lows, order_by \in {<<>>, <<OrderCol>>},
       django \in {<<4, 1>>, <<4, 2>>}, version \in Versions, combining \in BOOLEAN :
        /\ where = WhereFull => VersionGE(django, <<4, 2>>)
        /\ Call([OfKind(BaseQuery, kind) EXCEPT
                    !.explain = explain, !.where = where, !.elide_empty = elide_empty,
                    !.low_mark = low, !.order_by = order_by],
                [BaseConnection EXCEPT
                    !.django = django, !.sql_server_version = version,
                    !.features.supports_explaining_query_execution = explaining,
                    !.features.supports_select_combinator = combining],
                TRUE, FALSE)

\* SQLCompiler.as_sql, called once
Compile ==
    /\ pc = "call"
    /\ ret' = as_sql(query, connection, args.with_limits, args.with_col_aliases)
    /\ pc' = "done"
    /\ UNCHANGED <<query, connection, args>>
    /\ UNCHANGED notSelVars

SelectStart ==
    /\ ret = NoResult
    /\ pc = "call"

\* Row locking under every capability set, statement kind and pagination
LockCalls ==
    \E kind \in Kinds, low \in Lows, high \in {<<>>, <<5>>},
       where \in {WhereNone, WhereEmpty}, select_for_update \in BOOLEAN,
       nowait \in BOOLEAN, skip_locked \in BOOLEAN, of \in {<<>>, <<"self">>},
       autocommit \in BOOLEAN :
      \E has_select_for_update \in BOOLEAN, with_limit \in BOOLEAN,
         has_nowait \in BOOLEAN, has_skip_locked \in BOOLEAN, has_of \in BOOLEAN,
         after_from \in BOOLEAN :
        Call([OfKind(BaseQuery, kind) EXCEPT
                 !.low_mark = low, !.high_mark = high, !.where = where,
                 !.elide_empty = TRUE,
                 !.select_for_update = select_for_update,
                 !.select_for_update_nowait = nowait,
                 !.select_for_update_skip_locked = skip_locked,
                 !.select_for_update_of = of],
             [BaseConnection EXCEPT
                 !.autocommit = autocommit,
                 !.features.has_select_for_update = has_select_for_update,
                 !.features.supports_select_for_update_with_limit = with_limit,
                 !.features.has_select_for_update_nowait = has_nowait,
                 !.features.has_select_for_update_skip_locked = has_skip_locked,
                 !.features.has_select_for_update_of = has_of,
                 !.features.for_update_after_from = after_from],
             TRUE, FALSE)

-----------------------------------------------------------------------------
(* The alias reference counts around SQLCompiler.as_sql: lines 212-214, the     *)
(* snapshot; pre_sql_setup and get_from_clause, which adjust the counts; lines *)
(* 439-441, the restore.  A compilation is a sequence of steps, so that the    *)
(* steps of two compilations of the same query object can interleave.          *)

MaxExtra == 2
MaxRef == 1
MaxCalls == 2

\* The aliases of query.alias_map: the base table and a joined table
AliasMap == {"T", "J"}
ExtraTableNames == {"X", "T"}

RECURSIVE SeqsUpTo(_, _)
SeqsUpTo(S, n) ==
    IF n = 0 THEN {<<>>}
    ELSE SeqsUpTo(S, n - 1)
            \cup {Append(q, x) : q \in {r \in SeqsUpTo(S, n - 1) : Len(r) = n - 1}, x \in S}

\* to_counts.get(alias, 0)
Get(counts, alias) == IF alias \in DOMAIN counts THEN counts[alias] ELSE 0

\* Query.ref_alias
ref_alias(counts, alias) == [counts EXCEPT ![alias] = @ + 1]

RECURSIVE RefAll(_, _)
RefAll(counts, aliases) ==
    IF aliases = <<>> THEN counts
    ELSE RefAll(ref_alias(counts, Head(aliases)), Tail(aliases))

\* Query.table_alias(table_name): the alias of the table, its count raised by
\* one; a table without an alias gets its name as alias, with count 1
table_alias(counts, tmap, table_name) ==
    IF table_name \in DOMAIN tmap
    THEN [alias |-> tmap[table_name],
          counts |-> ref_alias(counts, tmap[table_name]),
          tmap |-> tmap]
    ELSE [alias |-> table_name,
          counts |-> (table_name :> 1) @@ counts,
          tmap |-> (table_name :> table_name) @@ tmap]

\* Query.reset_refcounts(to_counts): every alias is unreferenced by what its
\* count exceeds to_counts.get(alias, 0)
reset_refcounts(counts, to_counts) ==
    [alias \in DOMAIN counts |-> counts[alias] - (counts[alias] - Get(to_counts, alias))]

\* A restore that is skipped when the try block raised
RestoreWhenReturned(counts, refcounts_before, raised) ==
    IF raised THEN counts ELSE [alias \in DOMAIN counts |-> Get(refcounts_before, alias)]

\* lines 439-441: finally, whether the try block returned or raised
Finally(counts, refcounts_before, raised) ==
    reset_refcounts(counts, refcounts_before)

\* lines 455-457: the aliases of alias_map get_from_clause finds referenced
ReferencedAliases(counts) == {alias \in AliasMap : counts[alias] # 0}

\* lines 482-483: whether the extra table's alias is added to the FROM list
ListsExtra(counts, alias) == alias \notin AliasMap \/ counts[alias] = 1

ThreadStart ==
    [pc |-> "entry", refcounts_before |-> <<>>, i |-> 1, from_aliases |-> <<>>,
     seen |-> <<>>, raised |-> FALSE, calls |-> 0]

\* line 212: refcounts_before = self.query.alias_refcount.copy()
Snapshot(t) ==
    /\ th[t].pc = "entry"
    /\ th' = [th EXCEPT ![t] = [ThreadStart EXCEPT
                                   !.pc = "setup",
                                   !.refcounts_before = alias_refcount,
                                   !.calls = th[t].calls]]
    /\ overlapped' = (overlapped
                        \/ \E u \in threads \ {t} : th[u].pc \notin {"entry", "done"})
    /\ UNCHANGED <<alias_refcount, table_map, rq, threads, counts0>>
    /\ UNCHANGED notRcVars

\* line 214: pre_sql_setup references the aliases its joins use, and may raise
\* on the way
PreSqlSetup(t) ==
    /\ th[t].pc = "setup"
    /\ \E k \in 0..Len(rq.setup_refs), raises \in BOOLEAN :
          /\ raises \/ k = Len(rq.setup_refs)
          /\ alias_refcount' = RefAll(alias_refcount, SubSeq(rq.setup_refs, 1, k))
          /\ th' = [th EXCEPT ![t].pc = IF raises THEN "finally" ELSE "from",
                              ![t].raised = raises]
    /\ UNCHANGED <<table_map, rq, threads, counts0, overlapped>>
    /\ UNCHANGED notRcVars

\* lines 455-476: the join clauses of the aliases that are referenced
FromAliases(t) ==
    /\ th[t].pc = "from"
    /\ \E raises \in BOOLEAN :
          th' = [th EXCEPT ![t].pc = IF raises THEN "finally" ELSE "extra",
                           ![t].raised = raises,
                           ![t].from_aliases = <<ReferencedAliases(alias_refcount)>>]
    /\ UNCHANGED <<alias_refcount, table_map, rq, threads, counts0, overlapped>>
    /\ UNCHANGED notRcVars

\* lines 477-483: one extra table
ExtraTable(t) ==
    /\ th[t].pc = "extra"
    /\ th[t].i <= Len(rq.extra_tables)
    /\ LET r == table_alias(alias_refcount, table_map, rq.extra_tables[th[t].i])
       IN  /\ alias_refcount' = r.counts
           /\ table_map' = r.tmap
           /\ th' = [th EXCEPT
                        ![t].i = @ + 1,
                        ![t].seen = Append(@, [alias |-> r.alias,
                                               count |-> r.counts[r.alias],
                                               listed |-> ListsExtra(r.counts, r.alias)])]
    /\ UNCHANGED <<rq, threads, counts0, overlapped>>
    /\ UNCHANGED notRcVars

\* line 484 and what follows get_from_clause in the try block: it returns the
\* statement or raises
Body(t) ==
    /\ th[t].pc = "extra"
    /\ th[t].i > Len(rq.extra_tables)
    /\ \E raises \in BOOLEAN :
          th' = [th EXCEPT ![t].pc = "finally", ![t].raised = raises]
    /\ UNCHANGED <<alias_refcount, table_map, rq, threads, counts0, overlapped>>
    /\ UNCHANGED notRcVars

\* lines 439-441: self.query.reset_refcounts(refcounts_before)
Restore(t) ==
    /\ th[t].pc = "finally"
    /\ alias_refcount' = Finally(alias_refcount, th[t].refcounts_before, th[t].raised)
    /\ th' = [th EXCEPT ![t].pc = "done", ![t].calls = @ + 1]
    /\ UNCHANGED <<table_map, rq, threads, counts0, overlapped>>
    /\ UNCHANGED notRcVars

\* The same query is compiled again
Again(t) ==
    /\ th[t].pc = "done"
    /\ th[t].calls < MaxCalls
    /\ th' = [th EXCEPT ![t].pc = "entry"]
    /\ UNCHANGED <<alias_refcount, table_map, rq, threads, counts0, overlapped>>
    /\ UNCHANGED notRcVars

RefcountStart(T) ==
    /\ threads = T
    /\ \E base \in 0..MaxRef, joined \in 0..MaxRef :
          alias_refcount = [alias \in AliasMap |-> IF alias = "T" THEN base ELSE joined]
    /\ counts0 = alias_refcount
    /\ table_map = [alias \in AliasMap |-> alias]
    /\ \E extra_tables \in SeqsUpTo(ExtraTableNames, MaxExtra),
          setup_refs \in {<<>>, <<"T">>, <<"J">>, <<"T", "J">>} :
          rq = [extra_tables |-> extra_tables, setup_refs |-> setup_refs]
    /\ th = [t \in T |-> ThreadStart]
    /\ overlapped = FALSE

NextRefcount ==
    \/ \E t \in threads : Snapshot(t)
    \/ \E t \in threads : PreSqlSetup(t)
    \/ \E t \in threads : FromAliases(t)
    \/ \E t \in threads : ExtraTable(t)
    \/ \E t \in threads : Body(t)
    \/ \E t \in threads : Restore(t)
    \/ \E t \in threads : Again(t)

NextConcurrent ==
    \/ \E t \in threads : Snapshot(t)
    \/ \E t \in threads : PreSqlSetup(t)
    \/ \E t \in threads : FromAliases(t)
    \/ \E t \in threads : ExtraTable(t)
    \/ \E t \in threads : Body(t)
    \/ \E t \in threads : Restore(t)

-----------------------------------------------------------------------------
(* SQLInsertCompiler *)

MaxObjs == 2

CommaList(tokens) == Join([i \in 1..Len(tokens) |-> <<tokens[i]>>], Comma)

\* lines 576-589, as they read for Django 3.0 and later
get_returned_fields(q) == q.returning_fields
can_return_columns_from_insert(c) == c.features.can_return_columns_from_insert
can_return_rows_from_bulk_insert(c) == c.features.can_return_rows_from_bulk_insert

\* lines 598-601: the statement between the two identity override toggles
IdentityInsert(table, q) ==
    <<Token("identity_on", table.s, <<>>), Kw(";")>> \o q
        \o <<Kw(";"), Token("identity_off", table.s, <<>>)>>

\* A fix_auto that lets the statements after the first one through as they are
FixAutoFirstStatement(sql, opts, fields) ==
    IF opts.auto_field # <<>>
          /\ opts.auto_field[1].column \in {fields[i].column : i \in 1..Len(fields)}
    THEN [i \in 1..Len(sql) |->
            IF i = 1
            THEN Frag(IdentityInsert(quote_name(opts.db_table), sql[i].sql), sql[i].params)
            ELSE sql[i]]
    ELSE sql

\* lines 591-604.  A db_column that is not given is the empty string.
fix_auto(sql, opts, fields) ==
    IF opts.auto_field # <<>>
    THEN LET auto_field_column ==
                 IF opts.auto_field[1].db_column # ""
                 THEN opts.auto_field[1].db_column
                 ELSE opts.auto_field[1].column
             columns == [i \in 1..Len(fields) |-> fields[i].column]
         IN  IF \E i \in 1..Len(columns) : columns[i] = auto_field_column
             THEN LET table == quote_name(opts.db_table)
                  IN  [i \in 1..Len(sql) |->
                          Frag(IdentityInsert(table, sql[i].sql), sql[i].params)]
             ELSE sql
    ELSE sql

\* lines 607-608
seed_rows_number == 8
cross_join_power == 4

\* lines 610-611: n texts SELECT 1 AS x, which UNION ALL joins
generate_seed_rows(n) == [i \in 1..n |-> "SELECT 1 AS x"]

\* A cross join that names the seed rows once, whatever the power asked
CrossJoinOnce(p) == <<0>>

\* lines 613-614: SEED_ROWS under the aliases _0 .. _(p-1), which commas join
cross_join(p) == [i \in 1..p |-> i - 1]

\* lines 606-628: the one statement that inserts len(objs) rows of defaults.
\* Its numbers are the seed selects, the TOP count and the cross-joined aliases.
bulk_insert_default_values_sql(table, q) ==
    Token("merge_default_values", table.s,
          <<Len(generate_seed_rows(seed_rows_number)), q.objs,
            Len(cross_join(cross_join_power))>>)

\* connection.ops.bulk_insert_sql, called at lines 684 and 693: VALUES and the
\* rows of placeholders, each in parentheses
bulk_insert_sql(placeholder_rows) ==
    <<Kw("VALUES")>>
        \o Join([o \in 1..Len(placeholder_rows) |->
                    <<Kw("(")>> \o CommaList(placeholder_rows[o]) \o <<Kw(")")>>], Comma)

\* lines 633-699: SQLInsertCompiler.as_sql, the list of (sql, params) it returns.
\* The value an object gives a field is written as the field's column.
insert_as_sql(q, c) ==
    LET opts == q.meta
        table == quote_name(opts.db_table)
        has_fields == q.fields # <<>>
        result ==
            <<Token("insert", table.s, <<>>)>>
                \o (IF has_fields
                    THEN <<Kw("(")>>
                            \o CommaList([i \in 1..Len(q.fields) |-> quote_name(q.fields[i].column)])
                            \o <<Kw(")")>>
                    ELSE <<>>)
        \* lines 647-654 and assemble_as_sql
        placeholder_rows ==
            [o \in 1..q.objs |->
                IF has_fields THEN [i \in 1..Len(q.fields) |-> Ph(q.fields[i].column)]
                ELSE <<Kw("DEFAULT")>>]
        param_rows ==
            [o \in 1..q.objs |->
                IF has_fields THEN [i \in 1..Len(q.fields) |-> q.fields[i].column]
                ELSE <<>>]
        values_format(row) ==
            IF has_fields THEN <<Kw("VALUES"), Kw("(")>> \o CommaList(row) \o <<Kw(")")>>
            ELSE CommaList(row) \o <<Kw("VALUES")>>
        can_bulk == get_returned_fields(q) = <<>> /\ c.features.has_bulk_insert /\ has_fields
        returning == get_returned_fields(q) # <<>> /\ can_return_columns_from_insert(c)
        r_sql == c.return_insert_columns
        sql ==
            IF returning
            THEN IF can_return_rows_from_bulk_insert(c)
                 THEN <<Frag(result \o r_sql \o bulk_insert_sql(placeholder_rows),
                             Flatten(param_rows))>>
                 ELSE <<Frag(<<Kw("SET NOCOUNT ON")>> \o result
                                \o values_format(placeholder_rows[1])
                                \o <<Kw(";"), Kw("SELECT CAST(SCOPE_IDENTITY() AS bigint)")>>,
                             param_rows[1])>>
            ELSE IF can_bulk
                 THEN <<Frag(result \o bulk_insert_sql(placeholder_rows), Flatten(param_rows))>>
                 ELSE [o \in 1..q.objs |->
                          Frag(result \o values_format(placeholder_rows[o]), param_rows[o])]
    IN  IF returning /\ can_return_rows_from_bulk_insert(c) /\ ~has_fields
        THEN <<Frag(<<bulk_insert_default_values_sql(table, q)>> \o r_sql \o <<Kw(";")>>,
                    <<>>)>>
        ELSE IF has_fields THEN fix_auto(sql, opts, q.fields)
        ELSE sql

Field(column) == [column |-> column]
InsertFields ==
    {<<>>, <<Field("name")>>, <<Field("id")>>, <<Field("id"), Field("name")>>,
     <<Field("name"), Field("id")>>}
\* The table's AutoField, if it has one, with db_column given or not
AutoFields ==
    {<<>>, <<[db_column |-> "", column |-> "id"]>>, <<[db_column |-> "id", column |-> "id"]>>}
\* What connection.ops.return_insert_columns gives for the returned fields
ReturnInsertColumns == {<<>>, <<Token("output", "OUTPUT INSERTED.[id]", <<>>)>>}

InsertStart ==
    /\ \E fields \in InsertFields, objs \in 1..MaxObjs, auto_field \in AutoFields,
          returning_fields \in {<<>>, <<Field("id")>>} :
          insert_query = [fields |-> fields, objs |-> objs,
                          meta |-> [db_table |-> "t", auto_field |-> auto_field],
                          returning_fields |-> returning_fields]
    /\ \E has_bulk_insert \in BOOLEAN, can_return_columns \in BOOLEAN,
          can_return_rows \in BOOLEAN, r_sql \in ReturnInsertColumns :
          insert_connection =
              [features |-> [has_bulk_insert |-> has_bulk_insert,
                             can_return_columns_from_insert |-> can_return_columns,
                             can_return_rows_from_bulk_insert |-> can_return_rows],
               return_insert_columns |-> r_sql]
    /\ insert_ret = [status |-> "", sql |-> <<>>]

\* One call of SQLInsertCompiler.as_sql
CompileInsert ==
    /\ insert_ret.status = ""
    /\ insert_ret' = [status |-> "return",
                      sql |-> insert_as_sql(insert_query, insert_connection)]
    /\ UNCHANGED <<insert_query, insert_connection>>
    /\ UNCHANGED notInsVars

InsertIdle ==
    /\ insert_query = <<>> /\ insert_connection = <<>>
    /\ insert_ret = [status |-> "idle", sql |-> <<>>]

-----------------------------------------------------------------------------
(* The GROUP BY legalizer *)

MaxDepth == 2
MaxList == 4

\* An expression node: its class, the name it reads if it reads one, and what
\* get_source_expressions() gives
Expr(cls, name, source_expressions) ==
    [cls |-> cls, name |-> name, source_expressions |-> source_expressions]

\* lines 528-529
_is_subquery(expression) == expression.cls = "Subquery"

\* lines 496-505
RECURSIVE _is_constant_expression(_)
_is_constant_expression(expression) ==
    IF expression.cls = "Value" THEN TRUE
    ELSE LET sub_exprs == expression.source_expressions
         IN  IF sub_exprs = <<>> THEN FALSE
             ELSE \A i \in 1..Len(sub_exprs) : _is_constant_expression(sub_exprs[i])

\* A search for subqueries that looks at the expression and its operands only
HasDirectSubquery(expression) ==
    \/ _is_subquery(expression)
    \/ \E i \in 1..Len(expression.source_expressions) :
          _is_subquery(expression.source_expressions[i])

\* lines 520-526
RECURSIVE _has_nested_subquery(_)
_has_nested_subquery(expression) ==
    \/ _is_subquery(expression)
    \/ \E i \in 1..Len(expression.source_expressions) :
          _has_nested_subquery(expression.source_expressions[i])

\* lines 512-517: one turn of the loop of _filter_subquery_and_constant_expressions
FilterExpression(ret_, expression) ==
    IF _is_subquery(expression) THEN ret_
    ELSE IF _is_constant_expression(expression) THEN ret_
    ELSE IF ~_has_nested_subquery(expression) THEN Append(ret_, expression)
    ELSE ret_

ValueExpr == Expr("Value", "1", <<>>)
ColExpr(name) == Expr("Col", name, <<>>)
\* A function without operands, such as Now()
NowExpr == Expr("Func", "now", <<>>)
\* Subquery.get_source_expressions() is [self.query]
SubqueryExpr == Expr("Subquery", "", <<Expr("Query", "t", <<>>)>>)
FuncExpr(source_expressions) == Expr("Func", "f", source_expressions)

ExprLeaves == {ValueExpr, ColExpr("a"), NowExpr, SubqueryExpr}

RECURSIVE Trees(_)
Trees(d) ==
    IF d = 0 THEN ExprLeaves
    ELSE LET sub == Trees(d - 1)
         IN  ExprLeaves \cup {FuncExpr(<<t>>) : t \in sub}
                        \cup {FuncExpr(<<t, l>>) : t \in sub, l \in ExprLeaves}

\* The expressions the lists of several expressions are made of
ExprPool ==
    {ValueExpr, ColExpr("a"), ColExpr("b"), NowExpr, SubqueryExpr,
     FuncExpr(<<ValueExpr, ValueExpr>>), FuncExpr(<<ColExpr("a"), ValueExpr>>),
     FuncExpr(<<FuncExpr(<<SubqueryExpr>>), ColExpr("b")>>)}

GroupByStart ==
    \E expressions \in SeqsUpTo(ExprPool, MaxList) \cup {<<t>> : t \in Trees(MaxDepth)} :
        legalizer = [expressions |-> expressions, i |-> 1, ret |-> <<>>, pc |-> "loop"]

\* lines 511-517: the loop looks at the next expression
FilterStep ==
    /\ legalizer.pc = "loop"
    /\ legalizer.i <= Len(legalizer.expressions)
    /\ legalizer' = [legalizer EXCEPT
                       !.ret = FilterExpression(@, legalizer.expressions[legalizer.i]),
                       !.i = @ + 1]
    /\ UNCHANGED notGbVars

\* line 518: return ret
FilterReturn ==
    /\ legalizer.pc = "loop"
    /\ legalizer.i > Len(legalizer.expressions)
    /\ legalizer' = [legalizer EXCEPT !.pc = "done"]
    /\ UNCHANGED notGbVars

NextGroupBy == FilterStep \/ FilterReturn

GroupByIdle == legalizer = [pc |-> "idle"]

-----------------------------------------------------------------------------
(* compile(node): the rewrite rules that change the operand list they work on *)

MaxCompiles == 2

\* 2**31 - 1, line 124
SubstrRest == 2147483647

\* An operand of a function node
Operand(cls, name, value) == [cls |-> cls, name |-> name, value |-> value]
Operands == {Operand("Col", "a", 0), Operand("Col", "b", 0), Operand("Value", "", 1)}

\* list.reverse()
Reverse(s) == [i \in 1..Len(s) |-> s[Len(s) + 1 - i]]

\* The operand list of node id
OperandsOf(h, id) == h.lists[h.nodes[id].source_expressions]

\* A copy that holds the very list the node holds
CopySharingOperands(h, id) ==
    [h EXCEPT !.nodes = Append(@, h.nodes[id])]

\* Func.copy(), called at line 570: a new node of the same class, with a new
\* list of the same operands
copy(h, id) ==
    [nodes |-> Append(h.nodes, [cls |-> h.nodes[id].cls,
                                source_expressions |-> Len(h.lists) + 1]),
     lists |-> Append(h.lists, OperandsOf(h, id))]

\* The classes of lines 531-568 that the model has nodes of
RewrittenClasses == {"StrIndex", "Substr", "Length"}
NodeClasses == RewrittenClasses \cup {"Col"}

\* lines 530-572: the node that is compiled, and the heap it is in
_as_microsoft(h, id) ==
    IF h.nodes[id].cls \in RewrittenClasses
    THEN LET copied == copy(h, id)
         IN  [heap |-> copied, node |-> Len(copied.nodes)]
    ELSE [heap |-> h, node |-> id]

\* line 116, and line 118: self.source_expressions.reverse()
reverse_source_expressions(h, id) ==
    [h EXCEPT !.lists[h.nodes[id].source_expressions] = Reverse(@)]

\* lines 123-124
append_length(h, id) ==
    IF Len(OperandsOf(h, id)) < 3
    THEN [h EXCEPT !.lists[h.nodes[id].source_expressions] =
                        Append(@, Operand("Value", "", SubstrRest))]
    ELSE h

\* line 486: node = self._as_microsoft(node)
AsMicrosoft ==
    /\ rewrite.pc = "call"
    /\ LET r == _as_microsoft(heap, rewrite.node)
       IN  /\ heap' = r.heap
           /\ rewrite' = [rewrite EXCEPT !.pc = "rule", !.compiled = r.node]
    /\ UNCHANGED notRwVars

\* What the node's rule does before it renders: lines 116, 123-124
RuleEnter ==
    /\ rewrite.pc = "rule"
    /\ heap' = CASE heap.nodes[rewrite.compiled].cls = "StrIndex" ->
                        reverse_source_expressions(heap, rewrite.compiled)
                 [] heap.nodes[rewrite.compiled].cls = "Substr" ->
                        append_length(heap, rewrite.compiled)
                 [] OTHER -> heap
    /\ rewrite' = [rewrite EXCEPT !.pc = "render"]
    /\ UNCHANGED notRwVars

\* self.as_sql(compiler, connection, ...), lines 117, 125: the operands are
\* rendered in the order of the list, or rendering raises
Render ==
    /\ rewrite.pc = "render"
    /\ \E raises \in BOOLEAN :
          rewrite' = [rewrite EXCEPT
                         !.pc = IF raises THEN "done" ELSE "after",
                         !.raised = @ \cup (IF raises THEN {rewrite.node} ELSE {}),
                         !.rendered = IF raises THEN @
                                      ELSE Append(@, OperandsOf(heap, rewrite.compiled))]
    /\ UNCHANGED heap
    /\ UNCHANGED notRwVars

\* What the node's rule does after rendering: line 118
RuleExit ==
    /\ rewrite.pc = "after"
    /\ heap' = IF heap.nodes[rewrite.compiled].cls = "StrIndex"
               THEN reverse_source_expressions(heap, rewrite.compiled)
               ELSE heap
    /\ rewrite' = [rewrite EXCEPT !.pc = "done"]
    /\ UNCHANGED notRwVars

\* The tree is compiled again (once for the count, once for the rows), this
\* time from node `node`
CompileAgain ==
    /\ rewrite.pc = "done"
    /\ rewrite.compiles < MaxCompiles
    /\ \E node \in rewrite.callers :
          rewrite' = [rewrite EXCEPT !.pc = "call", !.node = node, !.compiled = 0,
                                     !.compiles = @ + 1]
    /\ UNCHANGED heap
    /\ UNCHANGED notRwVars

\* The operand lists a node of the class can have
OperandLists(cls) ==
    CASE cls = "StrIndex" -> {s \in SeqsUpTo(Operands, 2) : Len(s) = 2}
      [] cls = "Substr" -> {s \in SeqsUpTo(Operands, 3) : Len(s) >= 2}
      [] cls = "Length" -> {s \in SeqsUpTo(Operands, 1) : Len(s) = 1}
      [] OTHER -> {<<>>}

\* Two nodes of the caller's tree, each with its own operand list
RewriteStart ==
    /\ \E cls1 \in NodeClasses, cls2 \in NodeClasses :
          \E list1 \in OperandLists(cls1), list2 \in OperandLists(cls2) :
              heap = [nodes |-> <<[cls |-> cls1, source_expressions |-> 1],
                                  [cls |-> cls2, source_expressions |-> 2]>>,
                      lists |-> <<list1, list2>>]
    /\ \E node \in {1, 2} :
          rewrite = [pc |-> "call", node |-> node, compiled |-> 0, callers |-> {1, 2},
                     before |-> heap.lists, rendered |-> <<>>, raised |-> {},
                     compiles |-> 1]

NextRewrite == AsMicrosoft \/ RuleEnter \/ Render \/ RuleExit \/ CompileAgain

RewriteIdle == heap = <<>> /\ rewrite = [pc |-> "idle"]

-----------------------------------------------------------------------------
(* SQLUpdateCompiler *)

MaxValues == 2

\* lines 4-22: the names the module imports
ModuleImports ==
    {"types", "chain", "django", "Avg", "Count", "StdDev", "Variance", "Ref", "Subquery",
     "Value", "Window", "Chr", "ConcatPair", "Greatest", "Least", "Length", "LPad",
     "Random", "Repeat", "RPad", "StrIndex", "Substr", "Trim", "compiler",
     "TransactionManagementError", "NotSupportedError", "compile_json_path",
     "json_KeyTransform", "EmptyResultSet", "FullResultSet", "get_table_name",
     "get_schema_name", "apps"}

\* The exceptions among Python's built-in names that the module raises
Builtins == {"TypeError", "NotImplementedError"}

\* raise name(msg): the name is looked up among the module's names, then among
\* the built-in ones; a name that is in neither raises NameError
RaiseNamed(name, msg) ==
    IF name \in ModuleImports \cup Builtins THEN Raise(name, msg)
    ELSE Raise("NameError", "name '" \o name \o "' is not defined")

\* lines 731-767: one (field, model, val) of self.query.values
UpdateValue(field, val) ==
    IF val.kind = "expression" /\ val.contains_aggregate
    THEN RaiseNamed("FieldError", "Aggregate functions are not allowed in this query")
    ELSE IF val.kind = "expression" /\ val.contains_over_clause
    THEN RaiseNamed("FieldError", "Window expressions are not allowed in this query")
    ELSE IF val.kind = "instance" /\ ~field.remote_field
    THEN RaiseNamed("TypeError", "Tried to update field with a model instance")
    ELSE CASE val.kind = "expression" ->
                 Return(<<quote_name(field.column), Kw("="), Kw("expr"), Ph(field.column)>>,
                        <<field.column>>)
           [] val.kind = "none" ->
                 Return(<<quote_name(field.column), Kw("="), Kw("NULL")>>, <<>>)
           [] OTHER ->
                 Return(<<quote_name(field.column), Kw("="), Ph(field.column)>>,
                        <<field.column>>)

\* lines 769-779: self.compile(self.query.where)
UpdateWhere(q) ==
    CASE q.where = "full" -> Return(<<>>, <<>>)
      [] q.where = "empty" -> Raise("EmptyResultSet", "")
      [] OTHER -> Return(<<Kw("WHERE"), Kw("w"), Ph("w")>>, <<"w">>)

\* lines 721-780: SQLUpdateCompiler.as_sql
update_as_sql(q) ==
    IF q.values = <<>> THEN Return(<<>>, <<>>)
    ELSE LET values == [i \in 1..Len(q.values) |->
                           UpdateValue(q.values[i].field, q.values[i].val)]
             raising == {i \in 1..Len(values) : values[i].status = "raise"}
             where == UpdateWhere(q)
         IN  IF raising # {}
             THEN values[CHOOSE i \in raising : \A j \in raising : i <= j]
             ELSE IF where.status = "raise" THEN where
             ELSE Return(<<Kw("UPDATE"), quote_name(q.base_table), Kw("SET")>>
                            \o Join(Sqls(values), Comma) \o where.sql,
                         Params(values) \o where.params)

UpdateVals ==
    {[kind |-> "value", contains_aggregate |-> FALSE, contains_over_clause |-> FALSE],
     [kind |-> "none", contains_aggregate |-> FALSE, contains_over_clause |-> FALSE],
     [kind |-> "instance", contains_aggregate |-> FALSE, contains_over_clause |-> FALSE]}
    \cup {[kind |-> "expression", contains_aggregate |-> a, contains_over_clause |-> w] :
            a \in BOOLEAN, w \in BOOLEAN}

UpdateAssignments ==
    {[field |-> [column |-> column, remote_field |-> remote_field], val |-> val] :
        column \in {"a"}, remote_field \in BOOLEAN, val \in UpdateVals}

UpdateStart ==
    /\ \E values \in SeqsUpTo(UpdateAssignments, MaxValues),
          where \in {"sql", "full", "empty"} :
          update_query = [values |-> values, where |-> where, base_table |-> "t"]
    /\ update_ret = NoResult

\* One call of SQLUpdateCompiler.as_sql
CompileUpdate ==
    /\ update_ret.status = ""
    /\ update_ret' = update_as_sql(update_query)
    /\ UNCHANGED update_query
    /\ UNCHANGED notUpdVars

UpdateIdle ==
    /\ update_query = <<>>
    /\ update_ret = [NoResult EXCEPT !.status = "idle"]

-----------------------------------------------------------------------------
(* The default-values bulk insert, lines 606-628 and 660-671: as_sql builds    *)
(* the MERGE statement for the objects given and the database runs it.         *)

MaxBatch == 4095

\* An insert of objects that give no field, with the keys to be returned
BulkQuery(k) ==
    [fields |-> <<>>, objs |-> k, meta |-> [db_table |-> "t", auto_field |-> <<>>],
     returning_fields |-> <<Field("id")>>]
BulkConnection(r_sql) ==
    [features |-> [has_bulk_insert |-> TRUE, can_return_columns_from_insert |-> TRUE,
                   can_return_rows_from_bulk_insert |-> TRUE],
     return_insert_columns |-> r_sql]

BulkStart ==
    \E k \in 1..MaxBatch, r_sql \in ReturnInsertColumns :
        bulk = [pc |-> "call", objs |-> k, r_sql |-> r_sql, sql |-> <<>>, inserted |-> 0]

\* SQLInsertCompiler.as_sql, lines 660-671
CompileBulk ==
    /\ bulk.pc = "call"
    /\ bulk' = [bulk EXCEPT !.pc = "compiled",
                            !.sql = insert_as_sql(BulkQuery(bulk.objs),
                                                  BulkConnection(bulk.r_sql))]
    /\ UNCHANGED notBulkVars

\* The rows of SELECT 1 as x FROM SEED_ROWS AS _0, ..., SEED_ROWS AS _(p-1):
\* every combination of one seed row per alias
RECURSIVE CrossJoinRows(_, _)
CrossJoinRows(seed_rows, p) ==
    IF p = 0 THEN 1 ELSE seed_rows * CrossJoinRows(seed_rows, p - 1)

\* SELECT TOP k * FROM (...): the first k rows, or all of them if fewer
TopRows(k, rows) == IF k < rows THEN k ELSE rows

\* MERGE ... USING (...) ON 1 = 0 WHEN NOT MATCHED THEN INSERT DEFAULT VALUES:
\* no source row matches, and each one inserts a row
MergeInserted(merge) == TopRows(merge.n[2], CrossJoinRows(merge.n[1], merge.n[3]))

\* The database runs the statement returned
ExecuteBulk ==
    /\ bulk.pc = "compiled"
    /\ Len(bulk.sql) = 1 /\ bulk.sql[1].sql[1].k = "merge_default_values"
    /\ bulk' = [bulk EXCEPT !.pc = "executed",
                            !.inserted = MergeInserted(bulk.sql[1].sql[1])]
    /\ UNCHANGED notBulkVars

NextBulk == CompileBulk \/ ExecuteBulk

-----------------------------------------------------------------------------
(* The pad rewrites, lines 71-87 and 94-105, as the database evaluates the     *)
(* text they render.  A string is the sequence of its characters.              *)

MaxSource == 2
MaxFill == 2
MaxPad == 5

SourceChars == {"7", "a", "b", " "}
FillChars == {"0", "x"}
Strings(chars, lo, hi) == UNION {[1..n -> chars] : n \in lo..hi}

\* REPLICATE(s, n): s written n times over
RECURSIVE REPLICATE(_, _)
REPLICATE(s, n) == IF n <= 0 THEN <<>> ELSE s \o REPLICATE(s, n - 1)

\* LEFT(s, n): the first n characters of s, all of s if it has fewer
LEFT(s, n) == SubSeq(s, 1, IF n < Len(s) THEN n ELSE Len(s))

\* LEN(s): the number of characters of s, trailing blanks not counted
RECURSIVE LEN(_)
LEN(s) == IF s # <<>> /\ s[Len(s)] = " " THEN LEN(SubSeq(s, 1, Len(s) - 1)) ELSE Len(s)

\* lines 84-86: the template of _as_sql_lpad
EvalLPad(expression, length, fill_text) ==
    LEFT(LEFT(REPLICATE(fill_text, length),
              IF length > LEN(expression) THEN length - LEN(expression) ELSE 0)
            \o expression,
         length)

\* line 104: the template of _as_sql_rpad
EvalRPad(expression, length, fill_text) ==
    LEFT(expression \o REPLICATE(fill_text, length), length)

PadStart ==
    \E function \in {"LPad", "RPad"}, expression \in Strings(SourceChars, 0, MaxSource),
       length \in 0..MaxPad, fill_text \in Strings(FillChars, 1, MaxFill) :
        pad = [pc |-> "call", function |-> function, expression |-> expression,
               length |-> length, fill_text |-> fill_text, value |-> <<>>]

\* The database evaluates the text rendered for LPad(expression, length, fill_text)
EvaluateLPad ==
    /\ pad.pc = "call" /\ pad.function = "LPad"
    /\ pad' = [pad EXCEPT !.pc = "evaluated",
                          !.value = EvalLPad(pad.expression, pad.length, pad.fill_text)]
    /\ UNCHANGED notPadVars

\* The database evaluates the text rendered for RPad(expression, length, fill_text)
EvaluateRPad ==
    /\ pad.pc = "call" /\ pad.function = "RPad"
    /\ pad' = [pad EXCEPT !.pc = "evaluated",
                          !.value = EvalRPad(pad.expression, pad.length, pad.fill_text)]
    /\ UNCHANGED notPadVars

NextPad == EvaluateLPad \/ EvaluateRPad

-----------------------------------------------------------------------------
(* The schema qualification of get_from_clause, lines 464-476.  A text is the  *)
(* sequence of its pieces; the pieces are cut so that the letters JOIN and ON  *)
(* stand in a text only as the pieces "JOIN" and "ON", which makes a search    *)
(* for them among the pieces the search among the characters.                  *)

Sp == " "

\* text.find(sep), from 1; 0 when sep is not in text
Find(text, sep) ==
    LET at == {i \in 1..(Len(text) - Len(sep) + 1) :
                  SubSeq(text, i, i + Len(sep) - 1) = sep}
    IN  IF at = {} THEN 0 ELSE CHOOSE i \in at : \A j \in at : i <= j

\* sep in text
Contains(text, sep) == Find(text, sep) # 0

\* text.split(sep)
RECURSIVE split(_, _)
split(text, sep) ==
    LET i == Find(text, sep)
    IN  IF i = 0 THEN <<text>>
        ELSE <<SubSeq(text, 1, i - 1)>>
                \o split(SubSeq(text, i + Len(sep), Len(text)), sep)

\* lines 469-476, on the text compiled for the FROM fragment: the text
\* returned, or the IndexError of a subscript beyond the parts of a split
qualify_clause(clause_sql, schema) ==
    IF schema = "" THEN [status |-> "return", sql |-> clause_sql, exc |-> ""]
    ELSE IF Contains(clause_sql, <<"JOIN">>)
    THEN LET by_join_sp == split(clause_sql, <<"JOIN", Sp>>)
             by_join == split(clause_sql, <<"JOIN">>)
         IN  IF Len(by_join_sp) < 2 \/ Len(split(by_join[2], <<"ON">>)) < 2
             THEN [status |-> "raise", sql |-> <<>>, exc |-> "IndexError"]
             ELSE LET table_clause_sql ==
                          <<"[" \o schema \o "].">>
                              \o split(by_join_sp[2], <<Sp, "ON">>)[1]
                  IN  [status |-> "return",
                       sql |-> by_join[1] \o <<"JOIN", Sp>> \o table_clause_sql
                                  \o <<Sp, "ON">> \o split(by_join[2], <<"ON">>)[2],
                       exc |-> ""]
    ELSE [status |-> "return", sql |-> <<"[" \o schema \o "].">> \o clause_sql,
          exc |-> ""]

\* What Django renders for the entries of alias_map: a base table is its quoted
\* name and its alias; a join is the join type, the quoted table name, the
\* alias, ON and the join condition in parentheses
JoinTypes == {<<>>, <<"INNER", Sp, "JOIN">>, <<"LEFT", Sp, "OUTER", Sp, "JOIN">>}
TableNames == {<<"[u]">>, <<"[", "NATI", "ON", "]">>, <<"[", "JOIN", "T]">>}
TableAliases == {<<>>, <<Sp, "T3">>, <<Sp, "[", "Z", "ON", "E]">>}
JoinConditions ==
    {<<"[t].[id]", Sp, "=", Sp, "[u].[t_id]">>,
     <<"[t].[id]", Sp, "=", Sp, "[u].[", "REGI", "ON", "_id]">>,
     <<"[t].[id]", Sp, "=", Sp, "[u].[", "JOIN", "T_id]">>,
     <<"[t].[id]", Sp, "=", Sp, "[u].[t_id]", Sp, "AND", Sp,
       "[u].[", "ON", "LINE]", Sp, "=", Sp, "%s">>}
Schemas == {"", "dbo"}

\* The text of a FROM fragment, with what stands between the join type and
\* the table name
ClauseText(c, before_table) ==
    IF c.join_type = <<>> THEN before_table \o c.table_name \o c.alias
    ELSE c.join_type \o <<Sp>> \o before_table \o c.table_name \o c.alias
            \o <<Sp, "ON", Sp, "(">> \o c.on \o <<")">>

FromStart ==
    \E join_type \in JoinTypes, table_name \in TableNames, alias \in TableAliases,
       on \in JoinConditions, schema \in Schemas :
        /\ join_type = <<>> => on = <<"[t].[id]", Sp, "=", Sp, "[u].[t_id]">>
        /\ from_clause =
               [pc |-> "call",
                clause |-> [join_type |-> join_type, table_name |-> table_name,
                            alias |-> alias, on |-> on],
                schema |-> schema,
                ret |-> [status |-> "", sql |-> <<>>, exc |-> ""]]

\* One turn of the loop of get_from_clause, from the compiled text on
QualifyClause ==
    /\ from_clause.pc = "call"
    /\ from_clause' =
           [from_clause EXCEPT
               !.pc = "done",
               !.ret = qualify_clause(ClauseText(from_clause.clause, <<>>),
                                      from_clause.schema)]
    /\ UNCHANGED notFromVars

-----------------------------------------------------------------------------
(* The cursor adapter, lines 174-197: the generator _cursor_iter, the cursor   *)
(* it reads and the consumer that drives it.  The generator runs only inside   *)
(* the consumer's next() and close() calls, from one suspension to the next.   *)

MaxRows == 3
MaxItersize == 2
Columns == 2

\* The i-th row of the result set
Row(i) == [c \in 1..Columns |-> 10 * i + c]
\* What fetchmany returns when the rows are exhausted, given as the sentinel
empty_fetchmany_value == <<>>

\* line 175: not hasattr(cursor.db, 'supports_mars') or cursor.db.supports_mars
StreamsAlways(c) == TRUE
streams(c) == c.supports_mars = <<>> \/ c.supports_mars = <<TRUE>>

\* cursor.fetchmany(size): whether this call raises, the rows it returns, and
\* the cursor after it
FetchRaises(c) == c.fails_at = c.fetches + 1
Fetched(c, size) ==
    SubSeq(c.result, c.pos + 1,
           IF c.pos + size < Len(c.result) THEN c.pos + size ELSE Len(c.result))
AfterFetch(c, size) ==
    [c EXCEPT !.fetches = @ + 1,
              !.pos = IF FetchRaises(c) THEN @ ELSE @ + Len(Fetched(c, size)),
              !.fetched_closed = @ \/ c.pc = "closed"]

\* cursor.close()
close(c) == [c EXCEPT !.pc = "closed", !.closes = @ + 1]

\* A close only where the loop came to its end
CloseOnReturn(c, reason) == IF reason = "end" THEN close(c) ELSE c
\* lines 183-185 and 192-194: finally: cursor.close(), however the try block
\* was left
finally(c, reason) == close(c)

\* A chunk delivered with every column of its rows
Uncut(rows, col_count) == rows
\* lines 182 and 190: rows if col_count is None else [r[:col_count] for r in rows]
cut(rows, col_count) ==
    IF col_count = <<>> THEN rows
    ELSE [i \in 1..Len(rows) |->
            SubSeq(rows[i], 1,
                   IF col_count[1] < Len(rows[i]) THEN col_count[1] ELSE Len(rows[i]))]

Logged(c, d) == IF d.closes > c.closes THEN <<"close">> ELSE <<>>

\* The cursor after execute, and _cursor_iter(cursor, sentinel, col_count,
\* itersize) called: nothing of its body has run
CursorStart ==
    /\ \E rows \in 0..MaxRows, fails_at \in 0..(MaxRows + 1),
          supports_mars \in {<<>>, <<TRUE>>, <<FALSE>>} :
          cursor = [pc |-> "open", result |-> [i \in 1..rows |-> Row(i)], pos |-> 0,
                    fetches |-> 0, fails_at |-> fails_at, closes |-> 0,
                    fetched_closed |-> FALSE, supports_mars |-> supports_mars]
    /\ \E itersize \in 1..MaxItersize, col_count \in {<<>>, <<1>>} :
          gen = [pc |-> "created", started |-> FALSE, sentinel |-> empty_fetchmany_value,
                 col_count |-> col_count, itersize |-> itersize, rows |-> <<>>,
                 chunks |-> <<>>, reason |-> ""]
    /\ consumer = [pc |-> "reading", received |-> <<>>]
    /\ log = <<>>

Suspended == gen.pc \in {"created", "yield", "buf_yield"}

\* The consumer calls next(): the generator starts at line 175, or goes on
\* from the yield it stands at
ConsumerNext ==
    /\ consumer.pc = "reading" /\ Suspended
    /\ gen' = [gen EXCEPT
                  !.started = TRUE,
                  !.pc = CASE gen.pc = "created" ->
                                  IF streams(cursor) THEN "fetch" ELSE "buf_fetch"
                           [] gen.pc = "yield" -> "fetch"
                           [] gen.pc = "buf_yield" -> "replay"]
    /\ UNCHANGED <<cursor, consumer, log>>
    /\ UNCHANGED notCurVars

\* The consumer stops and closes the generator: GeneratorExit is raised at the
\* yield it stands at; a generator that never started just ends
ConsumerClose ==
    /\ consumer.pc = "reading" /\ Suspended
    /\ consumer' = [consumer EXCEPT !.pc = "stopped"]
    /\ gen' = [gen EXCEPT
                  !.pc = IF gen.pc = "yield" THEN "finally" ELSE "closed",
                  !.reason = IF gen.pc = "yield" THEN "exit" ELSE @]
    /\ UNCHANGED <<cursor, log>>
    /\ UNCHANGED notCurVars

\* line 181: the next fetchmany of the streaming loop
Fetch ==
    /\ gen.pc = "fetch"
    /\ cursor' = AfterFetch(cursor, gen.itersize)
    /\ log' = Append(log, "fetch")
    /\ gen' = IF FetchRaises(cursor)
              THEN [gen EXCEPT !.pc = "finally", !.reason = "exc"]
              ELSE IF Fetched(cursor, gen.itersize) = gen.sentinel
              THEN [gen EXCEPT !.pc = "finally", !.reason = "end"]
              ELSE [gen EXCEPT !.pc = "emit", !.rows = Fetched(cursor, gen.itersize)]
    /\ UNCHANGED consumer
    /\ UNCHANGED notCurVars

\* line 182: yield
Yield ==
    /\ gen.pc = "emit"
    /\ consumer' = [consumer EXCEPT !.received = Append(@, cut(gen.rows, gen.col_count))]
    /\ log' = Append(log, "yield")
    /\ gen' = [gen EXCEPT !.pc = "yield"]
    /\ UNCHANGED cursor
    /\ UNCHANGED notCurVars

\* lines 183-185: finally, then the generator ends as the try block was left
StreamFinally ==
    /\ gen.pc = "finally"
    /\ cursor' = finally(cursor, gen.reason)
    /\ log' = log \o Logged(cursor, cursor')
    /\ gen' = [gen EXCEPT !.pc = CASE gen.reason = "end" -> "done"
                                   [] gen.reason = "exc" -> "raised"
                                   [] gen.reason = "exit" -> "closed"]
    /\ consumer' = [consumer EXCEPT !.pc = CASE gen.reason = "end" -> "finished"
                                             [] gen.reason = "exc" -> "failed"
                                             [] gen.reason = "exit" -> @]
    /\ UNCHANGED notCurVars

\* lines 189-190: one turn of the buffering loop
BufferedFetch ==
    /\ gen.pc = "buf_fetch"
    /\ cursor' = AfterFetch(cursor, gen.itersize)
    /\ log' = Append(log, "fetch")
    /\ gen' = IF FetchRaises(cursor)
              THEN [gen EXCEPT !.pc = "buf_finally", !.reason = "exc"]
              ELSE IF Fetched(cursor, gen.itersize) = gen.sentinel
              THEN [gen EXCEPT !.pc = "buf_finally", !.reason = "end"]
              ELSE [gen EXCEPT !.chunks =
                        Append(@, cut(Fetched(cursor, gen.itersize), gen.col_count))]
    /\ UNCHANGED consumer
    /\ UNCHANGED notCurVars

\* lines 192-194: finally, then the replay loop or the exception
BufferedFinally ==
    /\ gen.pc = "buf_finally"
    /\ cursor' = finally(cursor, gen.reason)
    /\ log' = log \o Logged(cursor, cursor')
    /\ gen' = [gen EXCEPT !.pc = IF gen.reason = "exc" THEN "raised" ELSE "replay"]
    /\ consumer' = [consumer EXCEPT !.pc = IF gen.reason = "exc" THEN "failed" ELSE @]
    /\ UNCHANGED notCurVars

\* lines 195-196: the next chunk of the buffer is yielded, or the buffer is
\* at its end and the generator returns
Replay ==
    /\ gen.pc = "replay"
    /\ IF gen.chunks # <<>>
       THEN /\ consumer' = [consumer EXCEPT !.received = Append(@, Head(gen.chunks))]
            /\ gen' = [gen EXCEPT !.pc = "buf_yield", !.chunks = Tail(@)]
            /\ log' = Append(log, "yield")
       ELSE /\ consumer' = [consumer EXCEPT !.pc = "finished"]
            /\ gen' = [gen EXCEPT !.pc = "done"]
            /\ log' = log
    /\ UNCHANGED cursor
    /\ UNCHANGED notCurVars

NextCursor ==
    \/ ConsumerNext \/ ConsumerClose
    \/ Fetch \/ Yield \/ StreamFinally
    \/ BufferedFetch \/ BufferedFinally \/ Replay

-----------------------------------------------------------------------------
(* The parts of the compiler that a specification leaves unused *)

\* No compilation of a shared query object is under way
RefcountIdle ==
    /\ alias_refcount = <<>> /\ table_map = <<>> /\ rq = <<>> /\ threads = {}
    /\ th = <<>> /\ counts0 = <<>> /\ overlapped = FALSE

SelectIdle ==
    /\ query = <<>> /\ connection = <<>> /\ args = <<>> /\ ret = NoResult /\ pc = "idle"

BulkIdle == bulk = [pc |-> "idle"]
PadIdle == pad = [pc |-> "idle"]
FromIdle == from_clause = [pc |-> "idle"]
CursorIdle ==
    /\ cursor = [pc |-> "idle"] /\ gen = [pc |-> "idle"]
    /\ consumer = [pc |-> "idle"] /\ log = <<>>
\* Nothing but the SQL compilers is in use
AdaptersIdle == BulkIdle /\ PadIdle /\ FromIdle /\ CursorIdle
\* No SQL compiler is in use
CompilersIdle ==
    /\ SelectIdle /\ RefcountIdle /\ InsertIdle /\ GroupByIdle /\ RewriteIdle
    /\ UpdateIdle

-----------------------------------------------------------------------------
(* The specifications *)

\* One SELECT compilation, over the statements of PaginationCalls, ClauseCalls
\* and OtherCalls
OthersIdle == InsertIdle /\ GroupByIdle /\ RewriteIdle /\ UpdateIdle /\ AdaptersIdle

InitSelect ==
    /\ (PaginationCalls \/ ClauseCalls \/ OtherCalls) /\ SelectStart
    /\ RefcountIdle /\ OthersIdle
NextSelect == Compile
SpecSelect == InitSelect /\ [][NextSelect]_vars

\* One SELECT compilation of a statement that may lock rows
InitLock == LockCalls /\ SelectStart /\ RefcountIdle /\ OthersIdle
SpecLock == InitLock /\ [][NextSelect]_vars

\* The compilations of one query object, one after the other
InitRefcount == RefcountStart({1}) /\ SelectIdle /\ OthersIdle
SpecRefcount == InitRefcount /\ [][NextRefcount]_vars

\* Two compilations of one query object, one each, their steps interleaved
InitConcurrent == RefcountStart({1, 2}) /\ SelectIdle /\ OthersIdle
SpecConcurrent == InitConcurrent /\ [][NextConcurrent]_vars

\* One INSERT compilation
InitInsert ==
    /\ InsertStart /\ SelectIdle /\ RefcountIdle /\ GroupByIdle /\ RewriteIdle /\ UpdateIdle
    /\ AdaptersIdle
SpecInsert == InitInsert /\ [][CompileInsert]_vars

\* One run of the GROUP BY legalizer
InitGroupBy ==
    /\ GroupByStart /\ SelectIdle /\ RefcountIdle /\ InsertIdle /\ RewriteIdle /\ UpdateIdle
    /\ AdaptersIdle
SpecGroupBy == InitGroupBy /\ [][NextGroupBy]_vars

\* The compilations of the nodes of one tree
InitRewrite ==
    /\ RewriteStart /\ SelectIdle /\ RefcountIdle /\ InsertIdle /\ GroupByIdle /\ UpdateIdle
    /\ AdaptersIdle
SpecRewrite == InitRewrite /\ [][NextRewrite]_vars

\* One UPDATE compilation
InitUpdate ==
    /\ UpdateStart /\ SelectIdle /\ RefcountIdle /\ InsertIdle /\ GroupByIdle /\ RewriteIdle
    /\ AdaptersIdle
SpecUpdate == InitUpdate /\ [][CompileUpdate]_vars

\* One default-values bulk insert, compiled and run
InitBulk == BulkStart /\ CompilersIdle /\ PadIdle /\ FromIdle /\ CursorIdle
SpecBulk == InitBulk /\ [][NextBulk]_vars

\* One pad function, evaluated
InitPad == PadStart /\ CompilersIdle /\ BulkIdle /\ FromIdle /\ CursorIdle
SpecPad == InitPad /\ [][NextPad]_vars

\* One FROM fragment, schema-qualified
InitFrom == FromStart /\ CompilersIdle /\ BulkIdle /\ PadIdle /\ CursorIdle
SpecFrom == InitFrom /\ [][QualifyClause]_vars

\* One result set read through the cursor adapter
InitCursor == CursorStart /\ CompilersIdle /\ BulkIdle /\ PadIdle /\ FromIdle
SpecCursor == InitCursor /\ [][NextCursor]_vars
\* The same, with a consumer that does not stand still: at every suspension
\* it calls next() or close(), and the generator's code runs within that call
SpecCursorFair == SpecCursor /\ WF_vars(NextCursor)

-----------------------------------------------------------------------------
(* What the claims about SELECT compilation speak of *)

Returned == pc = "done" /\ ret.status = "return"
Raised == pc = "done" /\ ret.status = "raise"

\* The statement went through lines 240-365, not a combinator or qualify branch
IsPlain == query.combinator = "" /\ ~(VersionGE(connection.django, <<4, 2>>) /\ query.qualify)

Min(a, b) == IF a < b THEN a ELSE b
Max(a, b) == IF a > b THEN a ELSE b

\* The rows a statement denotes on a table of N rows, as their positions 1..N in
\* the requested ordering, by the meaning SQL Server gives each construct:
\* TOP n keeps the first n rows; OFFSET m ROWS skips m rows; FETCH FIRST n ROWS
\* ONLY keeps n rows; the rank filter keeps the rows whose ROW_NUMBER() is in
\* the range.  A rank filter over a statement that defines no rank column
\* denotes nothing valid (<<0>>).
Denotes(sql, N) ==
    LET all == [i \in 1..N |-> i]
        top == TokensOf(sql, "top")
        offset == TokensOf(sql, "offset")
        fetch == TokensOf(sql, "fetch")
        between == TokensOf(sql, "between")
        ge == TokensOf(sql, "ge")
        topped == IF top = <<>> THEN all ELSE SubSeq(all, 1, Min(top[1].n[1], N))
        skipped == IF offset = <<>> THEN topped
                   ELSE SubSeq(topped, offset[1].n[1] + 1, Len(topped))
        fetched == IF fetch = <<>> THEN skipped
                   ELSE SubSeq(skipped, 1, Min(fetch[1].n[1], Len(skipped)))
        ranked == IF between # <<>>
                  THEN SelectSeq(fetched, LAMBDA r : r >= between[1].n[1] /\ r <= between[1].n[2])
                  ELSE IF ge # <<>>
                  THEN SelectSeq(fetched, LAMBDA r : r >= ge[1].n[1])
                  ELSE fetched
    IN  IF (between # <<>> \/ ge # <<>>) /\ ~HasToken(sql, "rownumber") THEN <<0>>
        ELSE ranked

\* Rows [L, H) of the ordered sequence of N rows: max(0, min(H, N) - L) of them
RowsBetween(L, H, N) ==
    LET upto == IF H = <<>> THEN N ELSE Min(H[1], N)
    IN  [i \in 1..Max(0, upto - L) |-> L + i]

TableSizes == {0, 1, 10}

\* The statement orders its rows by the query's ordering: in its ORDER BY, or in
\* the OVER clause of its rank column
OrderedAsAsked ==
    LET asked == Join(Sqls(Ordering(query.order_by)), Comma)
        at(i) == SubSeq(ret.sql, i + 1, i + Len(asked))
    IN  \E i \in 1..Len(ret.sql) :
            /\ ret.sql[i].k \in {"orderby", "rownumber"}
            /\ at(i) = asked

\* C1: in every fragment the compiler emits, the placeholders of the text are as
\* many as the parameters, and the i-th parameter is the bind value of the
\* operand that wrote the i-th placeholder.
C1_PlaceholdersMatchParams ==
    Returned => Placeholders(ret.sql) = ret.params

TopFollowsSelect ==
    \A i \in 1..Len(ret.sql) :
        ret.sql[i].k = "top" => i > 1 /\ ret.sql[i - 1].k = "select"

\* The place of the TOP keyword: after the statement's SELECT keyword, with
\* DISTINCT between them when the select is distinct
TopFollowsSelectDistinct ==
    \A i \in 1..Len(ret.sql) :
        ret.sql[i].k = "top" =>
            IF query.distinct
            THEN i > 2 /\ ret.sql[i - 1] = Kw("DISTINCT") /\ ret.sql[i - 2].k = "select"
            ELSE i > 1 /\ ret.sql[i - 1].k = "select"

\* The trailing OFFSET m ROWS clauses of the statement with m = 0, with m # 0
HasOffset0 == \E i \in 1..Len(ret.sql) : ret.sql[i].k = "offset" /\ ret.sql[i].n = <<0>>
HasOffsetN == \E i \in 1..Len(ret.sql) : ret.sql[i].k = "offset" /\ ret.sql[i].n # <<0>>

NativeSupport == connection.sql_server_version >= 2012

Count(b) == IF b THEN 1 ELSE 0

-----------------------------------------------------------------------------
(* Row locking *)

\* The options asked for along with row locking that the capability set
\* reports as unsupported, each with the message that names it
UnsupportedLockOptions ==
    LET f == connection.features
    IN  (IF with_limit_offset(query, args.with_limits)
               /\ ~f.supports_select_for_update_with_limit
         THEN {"LIMIT/OFFSET is not supported with select_for_update on this database backend."}
         ELSE {})
        \cup (IF query.select_for_update_nowait /\ ~f.has_select_for_update_nowait
              THEN {"NOWAIT is not supported on this database backend."} ELSE {})
        \cup (IF query.select_for_update_skip_locked /\ ~f.has_select_for_update_skip_locked
              THEN {"SKIP LOCKED is not supported on this database backend."} ELSE {})
        \cup (IF query.select_for_update_of # <<>> /\ ~f.has_select_for_update_of
              THEN {"FOR UPDATE OF is not supported on this database backend."} ELSE {})

\* The first of them in the order the compiler checks them
FirstUnsupportedLockOption ==
    LET f == connection.features
    IN  IF with_limit_offset(query, args.with_limits)
              /\ ~f.supports_select_for_update_with_limit
        THEN "LIMIT/OFFSET is not supported with select_for_update on this database backend."
        ELSE IF query.select_for_update_nowait /\ ~f.has_select_for_update_nowait
        THEN "NOWAIT is not supported on this database backend."
        ELSE IF query.select_for_update_skip_locked /\ ~f.has_select_for_update_skip_locked
        THEN "SKIP LOCKED is not supported on this database backend."
        ELSE "FOR UPDATE OF is not supported on this database backend."

\* C9 as stated: whenever a select requests row locking together with an option
\* the capability set reports as unsupported, compilation fails with an
\* UnsupportedFeature error that names that option and returns no SQL, for
\* every capability set and statement shape.
C9_LockAsStated ==
    (pc = "done" /\ query.select_for_update /\ UnsupportedLockOptions # {})
    => /\ ret.status = "raise"
       /\ ret.exc = "NotSupportedError"
       /\ ret.msg \in UnsupportedLockOptions
       /\ ret.sql = <<>>

\* C9 amended: when a select compiled by the plain branch requests row locking
\* together with an unsupported option, on a backend that has row locking and
\* inside a transaction, and no earlier step of the compilation has failed,
\* compilation fails with an UnsupportedFeature error naming the first
\* unsupported option in the order limit/offset, no-wait, skip-locked, of, and
\* returns no SQL.
C9_Lock ==
    (pc = "done" /\ query.select_for_update /\ UnsupportedLockOptions # {}
        /\ IsPlain /\ connection.features.has_select_for_update
        /\ ~connection.autocommit
        /\ CompileWhere(query, connection).status # "raise"
        /\ ~(query.distinct /\ query.distinct_fields # <<>>))
    => /\ ret.status = "raise"
       /\ ret.exc = "NotSupportedError"
       /\ ret.msg = FirstUnsupportedLockOption
       /\ ret.sql = <<>>

C9_Witness ==
    /\ Raised /\ IsPlain /\ query.select_for_update
    /\ query.select_for_update_skip_locked /\ query.select_for_update_of # <<>>
    /\ ~connection.features.has_select_for_update_skip_locked
    /\ ~connection.features.has_select_for_update_of
    /\ ret.msg = "SKIP LOCKED is not supported on this database backend."

-----------------------------------------------------------------------------
(* The alias reference counts *)

\* Two tables of counts give every alias the same count; an alias a table does
\* not hold has no reference, count 0
SameCounts(counts, other) ==
    \A alias \in DOMAIN counts \cup DOMAIN other : Get(counts, alias) = Get(other, alias)

\* C2: after as_sql returns or raises, at whatever step after the snapshot, the
\* query's alias reference counts equal the values they had when as_sql was
\* entered.
C2_RefcountsRestored ==
    \A t \in threads :
        th[t].pc = "done" => SameCounts(alias_refcount, th[t].refcounts_before)

C2_Witness ==
    /\ threads = {1}
    /\ th[1].pc = "done" /\ th[1].raised /\ th[1].calls = 2
    /\ Len(th[1].seen) = 2
    /\ rq.setup_refs # <<>>
    /\ "X" \in DOMAIN alias_refcount

\* What get_from_clause sees of the counts when the query is compiled alone,
\* from the counts before any compilation
RECURSIVE AloneExtras(_, _, _)
AloneExtras(counts, tmap, tables) ==
    IF tables = <<>> THEN <<>>
    ELSE LET r == table_alias(counts, tmap, Head(tables))
         IN  <<[alias |-> r.alias, count |-> r.counts[r.alias],
                listed |-> ListsExtra(r.counts, r.alias)]>>
             \o AloneExtras(r.counts, r.tmap, Tail(tables))

AloneCounts == RefAll(counts0, rq.setup_refs)

\* Compilation t saw, as far as it got, what it would have seen alone
SawAsAlone(t) ==
    /\ th[t].from_aliases \in {<<>>, <<ReferencedAliases(AloneCounts)>>}
    /\ th[t].seen = SubSeq(AloneExtras(AloneCounts, [a \in AliasMap |-> a], rq.extra_tables),
                           1, Len(th[t].seen))

AllDone == \A t \in threads : th[t].pc = "done"

\* C3: when two compilations of the same query object interleave
\* their snapshot, adjusting and restore steps in any order, then once both have
\* finished the shared counts equal their value before either started, and each
\* compilation saw the counts it would have seen running alone.
C3_ConcurrentRestore ==
    AllDone => /\ SameCounts(alias_refcount, counts0)
               /\ \A t \in threads : SawAsAlone(t)

\* What the save and restore does give: when neither of the two compilations
\* takes its snapshot while the other is between its snapshot and its restore,
\* then once both have finished the shared counts equal their value before
\* either started, and each compilation saw the counts it would have seen alone.
SequentialCompilationsRestore ==
    (AllDone /\ ~overlapped)
    => /\ SameCounts(alias_refcount, counts0)
       /\ \A t \in threads : SawAsAlone(t)

SequentialCompilationsDone ==
    /\ threads = {1, 2} /\ AllDone /\ ~overlapped
    /\ th[1].raised /\ ~th[2].raised
    /\ Len(th[1].seen) = 2 /\ Len(th[2].seen) = 2
    /\ rq.setup_refs # <<>>

-----------------------------------------------------------------------------
(* The identity override of INSERT *)

\* The field list holds the column of the table's auto-generated key
KeySupplied ==
    /\ insert_query.meta.auto_field # <<>>
    /\ \E i \in 1..Len(insert_query.fields) :
          insert_query.fields[i].column = insert_query.meta.auto_field[1].column

IdentityToggles(sql) == {i \in 1..Len(sql) : sql[i].k \in {"identity_on", "identity_off"}}

\* SET IDENTITY_INSERT <table> ON; <insert>; SET IDENTITY_INSERT <table> OFF
IdentityWrapped(sql, table) ==
    /\ Len(sql) >= 5
    /\ sql[1] = Token("identity_on", table, <<>>) /\ sql[2] = Kw(";")
    /\ sql[Len(sql) - 1] = Kw(";") /\ sql[Len(sql)] = Token("identity_off", table, <<>>)
    /\ IdentityToggles(sql) = {1, Len(sql)}
    /\ \E i \in 3..(Len(sql) - 2) : sql[i] = Token("insert", table, <<>>)

\* C6: in the statements the insert compiler returns, when the field list holds
\* the table's auto-generated key column every statement has the shape SET
\* IDENTITY_INSERT <table> ON; <insert>; SET IDENTITY_INSERT <table> OFF, on
\* every returning and bulk path; when the field list omits the key column, or
\* the table has no auto-generated key, no statement holds an identity override
\* toggle.
C6_IdentityInsert ==
    insert_ret.status = "return" =>
        /\ insert_ret.sql # <<>>
        /\ \A i \in 1..Len(insert_ret.sql) :
              IF KeySupplied
              THEN IdentityWrapped(insert_ret.sql[i].sql, "[t]")
              ELSE IdentityToggles(insert_ret.sql[i].sql) = {}

C6_Witness ==
    /\ insert_ret.status = "return"
    /\ KeySupplied
    /\ Len(insert_ret.sql) = 2
    /\ Len(insert_query.fields) = 2
    /\ IdentityWrapped(insert_ret.sql[2].sql, "[t]")

-----------------------------------------------------------------------------
(* The GROUP BY legalizer *)

\* The nodes of an expression tree
RECURSIVE Nodes(_)
Nodes(e) ==
    {e} \cup UNION {Nodes(e.source_expressions[i]) : i \in 1..Len(e.source_expressions)}

\* Constant: every leaf of the tree is a literal
Constant(e) == \A n \in Nodes(e) : n.source_expressions = <<>> => n.cls = "Value"
ContainsSubquery(e) == \E n \in Nodes(e) : n.cls = "Subquery"
Legal(e) == ~Constant(e) /\ ~ContainsSubquery(e)

LegalizerExample ==
    <<ValueExpr, ColExpr("a"), SubqueryExpr, FuncExpr(<<ValueExpr, ValueExpr>>)>>

\* C7: the GROUP BY legalizer returns exactly the grouping expressions given,
\* in their order, that are neither constant (a literal, or a function over
\* constant leaves only) nor a subquery nor an expression that contains a
\* subquery at any depth; [const_literal, col_a, (SELECT x FROM t),
\* func(const, const)] legalizes to [col_a].
C7_Legalizer ==
    legalizer.pc = "done" =>
        /\ legalizer.ret = SelectSeq(legalizer.expressions, Legal)
        /\ legalizer.expressions = LegalizerExample => legalizer.ret = <<ColExpr("a")>>

C7_Witness ==
    /\ legalizer.pc = "done"
    /\ legalizer.expressions = LegalizerExample
    /\ legalizer.ret = <<ColExpr("a")>>

-----------------------------------------------------------------------------
(* The rewrite rules and the caller's nodes *)

\* C8: applying a rewrite rule never changes the caller's expression node: after
\* compiling a StrIndex node or a Substr node without a length operand, whether
\* rendering succeeds or raises, the node's operand list has the same operands
\* in the same order, and the same length, as before the call.
C8_CallerNodeUnchanged ==
    rewrite.pc = "done" =>
        \A node \in rewrite.callers : OperandsOf(heap, node) = rewrite.before[node]

\* A StrIndex node whose rendering raised and a Substr node that was given a
\* length have both been compiled
C8_Witness ==
    /\ rewrite.pc = "done" /\ rewrite.compiles = 2
    /\ heap.nodes[1].cls = "StrIndex" /\ 1 \in rewrite.raised
    /\ rewrite.before[1][1] # rewrite.before[1][2]
    /\ OperandsOf(heap, 3) = Reverse(rewrite.before[1])
    /\ heap.nodes[2].cls = "Substr" /\ Len(rewrite.before[2]) = 2
    /\ rewrite.rendered = <<Append(rewrite.before[2], Operand("Value", "", SubstrRest))>>

-----------------------------------------------------------------------------
(* UPDATE with an aggregate or a window expression *)

IsRejected(val) ==
    val.kind = "expression" /\ (val.contains_aggregate \/ val.contains_over_clause)

\* C10: compiling an UPDATE in which an assigned value contains an aggregate or
\* a window expression aborts with FieldError, Django's error for a query the
\* caller built wrongly, and returns no SQL.  (The values are without a model
\* instance given to a field that is no relation, which raises TypeError.)
C10_AggregateRejected ==
    (/\ update_ret.status \in {"return", "raise"}
     /\ \E i \in 1..Len(update_query.values) : IsRejected(update_query.values[i].val)
     /\ \A i \in 1..Len(update_query.values) :
           update_query.values[i].val.kind # "instance")
    => update_ret.status = "raise" /\ update_ret.exc = "FieldError"

-----------------------------------------------------------------------------
(* Pagination clauses on every statement kind.                                 *)

\* The positions of the statement text holding a token of kind k
Positions(k) == {i \in 1..Len(ret.sql) : ret.sql[i].k = k}
NativeClauses == {i \in Positions("offset") \cup Positions("fetch") : ret.sql[i].n # <<0>>}
\* The tokens an ORDER BY list is made of: names, operators and placeholders
OrderListKinds == {"kw", "ph"}
OrderByRightBefore(i) ==
    \E j \in Positions("orderby") :
        /\ j < i
        /\ \A m \in (j + 1)..(i - 1) :
              ret.sql[m].k \in OrderListKinds \/ m \in NativeClauses

\* C17: every statement that carries the native OFFSET ... ROWS / FETCH clause
\* has an ORDER BY clause immediately before it, on the plain, grouped,
\* combinator and qualify paths alike.
C17_OrderByBeforeNativeOffset ==
    Returned => \A i \in NativeClauses : OrderByRightBefore(i)

\* On the plain path the ORDER BY is there, synthesized from the primary key
\* when the query is unordered
PlainOrderByBeforeNativeOffset ==
    (Returned /\ IsPlain) => \A i \in NativeClauses : OrderByRightBefore(i)
PlainNativeOffsetUnordered ==
    Returned /\ IsPlain /\ NativeClauses # {} /\ query.order_by = <<>>

\* The positions of the statement text inside the emulation wrapper
Inner(i, j) == (i + 1)..(j - 1)
WrapperHasRankedInner ==
    \A i \in Positions("wrap") : \E j \in Positions("wrapend") :
        /\ i < j
        /\ \E m \in Inner(i, j) : ret.sql[m].k = "rownumber"
        /\ \A m \in Inner(i, j) : ret.sql[m].k # "orderby"

\* C18: whenever the wrapper SELECT * FROM (<inner>) AS X WHERE X.rn ... is
\* emitted, the inner statement has a select-list column rn computed by
\* ROW_NUMBER() and no ORDER BY of its own, on every path.
C18_WrapperInnerRanked ==
    Returned => WrapperHasRankedInner

PlainWrapperInnerRanked ==
    (Returned /\ IsPlain) => WrapperHasRankedInner
PlainWrapperEmitted ==
    Returned /\ IsPlain /\ Positions("wrap") # {} /\ query.order_by # <<>>

\* The constructs that bound a result at high_mark - low_mark rows
BoundedByTop ==
    \E i \in Positions("top") : ret.sql[i].n = <<query.high_mark[1] - query.low_mark>>
BoundedByFetch ==
    \E i \in Positions("fetch") : ret.sql[i].n = <<query.high_mark[1] - query.low_mark>>
BoundedByRank ==
    \E i \in Positions("between") :
        ret.sql[i].n = <<query.low_mark + 1, query.high_mark[1]>>
Bounded == BoundedByTop \/ BoundedByFetch \/ BoundedByRank

\* C19: a statement compiled with limits enabled for a query whose high_mark
\* is set carries a construct that bounds the result at high_mark - low_mark
\* rows, for every statement kind: a limit is never silently dropped.
C19_LimitNeverDropped ==
    (Returned /\ args.with_limits /\ query.high_mark # <<>>) => Bounded

PlainLimitNeverDropped ==
    (Returned /\ IsPlain /\ args.with_limits /\ query.high_mark # <<>>) => Bounded
PlainLimited ==
    Returned /\ IsPlain /\ args.with_limits /\ query.high_mark # <<>> /\ BoundedByTop

-----------------------------------------------------------------------------
(* The default-values bulk insert *)

\* C11: the default-values bulk insert statement built for k objects inserts
\* exactly k rows, for every k from 1 to 4095: 8 seed rows cross-joined 4 times
\* give 4096 source rows, TOP k keeps k of them, and the merge that never
\* matches inserts one default row for each.
C11_InsertsOneRowPerObject ==
    bulk.pc = "executed" =>
        /\ CrossJoinRows(bulk.sql[1].sql[1].n[1], bulk.sql[1].sql[1].n[3]) = 4096
        /\ bulk.sql[1].sql[1].n[2] = bulk.objs
        /\ bulk.inserted = bulk.objs
C11_Witness == bulk.pc = "executed" /\ bulk.objs = 4095 /\ bulk.inserted = 4095

-----------------------------------------------------------------------------
(* The pad rewrites *)

\* The first n characters of fill written over and over
RepeatedFill(fill, n) == [i \in 1..n |-> fill[((i - 1) % Len(fill)) + 1]]
First(s, n) == SubSeq(s, 1, Min(n, Len(s)))
\* The standard pads: the fill goes before or after the source, and the
\* result is cut to length characters
StandardLPad(source, length, fill) ==
    First(RepeatedFill(fill, Max(0, length - Len(source))) \o source, length)
StandardRPad(source, length, fill) ==
    First(source \o RepeatedFill(fill, length), length)
StandardPad ==
    IF pad.function = "LPad" THEN StandardLPad(pad.expression, pad.length, pad.fill_text)
    ELSE StandardRPad(pad.expression, pad.length, pad.fill_text)

\* C13: the pad rewrites evaluate to the standard pad result for every source
\* string, target length and non-empty fill: left-pad gives the source preceded
\* by the first max(0, length - len(source)) characters of the repeated fill,
\* right-pad the source followed by repeated fill, each cut to length characters.
C13_PadIsStandard ==
    pad.pc = "evaluated" => pad.value = StandardPad

\* The right pad is the standard one for every source
RPadIsStandard ==
    (pad.pc = "evaluated" /\ pad.function = "RPad") => pad.value = StandardPad
\* The left pad is the standard one for the sources that do not end in a blank
LPadIsStandardWithoutTrailingBlank ==
    (pad.pc = "evaluated" /\ pad.function = "LPad" /\ LEN(pad.expression) = Len(pad.expression))
        => pad.value = StandardPad
\* LPAD("7", 3, "0") = "007"
LPadExample ==
    /\ pad.pc = "evaluated" /\ pad.function = "LPad" /\ pad.expression = <<"7">>
    /\ pad.length = 3 /\ pad.fill_text = <<"0">> /\ pad.value = <<"0", "0", "7">>
\* RPAD("ab", 5, "x") = "abxxx"
RPadExample ==
    /\ pad.pc = "evaluated" /\ pad.function = "RPad" /\ pad.expression = <<"a", "b">>
    /\ pad.length = 5 /\ pad.fill_text = <<"x">>
    /\ pad.value = <<"a", "b", "x", "x", "x">>
\* A length shorter than the source gives the first length characters of it
PadShorterThanSource ==
    (pad.pc = "evaluated" /\ pad.length < LEN(pad.expression))
        => pad.value = First(pad.expression, pad.length)

-----------------------------------------------------------------------------
(* The schema qualification of FROM fragments *)

\* The fragment with [schema]. immediately before the table name
Qualified ==
    ClauseText(from_clause.clause, <<"[" \o from_clause.schema \o "].">>)
SchemaSet == from_clause.pc = "done" /\ from_clause.schema # ""
\* The letters JOIN and ON stand in the fragment only as its keywords
PlainNames ==
    LET c == from_clause.clause
        names == c.table_name \o c.alias \o c.on
    IN  ~Contains(names, <<"JOIN">>) /\ ~Contains(names, <<"ON">>)

\* C14: the schema-qualified fragment is the original fragment with [schema].
\* inserted immediately before the table name and nothing else changed, also
\* when the table name, the alias or the ON predicate holds the letters ON or
\* JOIN.
C14_SchemaInsertedBeforeTable ==
    SchemaSet =>
        /\ from_clause.ret.status = "return"
        /\ from_clause.ret.sql = Qualified

\* Where the names hold neither JOIN nor ON the qualified fragment is right
PlainNamesQualified ==
    (SchemaSet /\ PlainNames) =>
        /\ from_clause.ret.status = "return"
        /\ from_clause.ret.sql = Qualified
PlainJoinQualified ==
    /\ SchemaSet /\ PlainNames /\ from_clause.clause.join_type # <<>>
    /\ from_clause.ret.sql = Qualified
\* A fragment the qualification fails on or cuts short
QualificationRaises == SchemaSet /\ from_clause.ret.status = "raise"
QualificationCutsPredicate ==
    /\ SchemaSet /\ from_clause.ret.status = "return"
    /\ Len(from_clause.ret.sql) < Len(Qualified)

-----------------------------------------------------------------------------
(* The cursor adapter *)

Ended == gen.pc \in {"done", "raised", "closed"}
ClosedOnce ==
    /\ cursor.closes <= 1
    /\ ~cursor.fetched_closed
    /\ (gen.started /\ Ended) => cursor.closes = 1

\* C12: in both modes the cursor is closed exactly once, and it is closed in
\* every run in which iteration was started, whether the consumer reads to the
\* sentinel, stops early and closes the iterator, or a fetch raises; no fetch
\* is issued on the cursor after it has been closed.
C12_ClosedExactlyOnce ==
    /\ []ClosedOnce
    /\ gen.started ~> (cursor.pc = "closed" /\ cursor.closes = 1)
\* The consumer stopped at a chunk of the streaming mode and closed the iterator
C12_Witness ==
    /\ gen.started /\ gen.pc = "closed" /\ gen.reason = "exit"
    /\ consumer.pc = "stopped" /\ consumer.received # <<>>
    /\ cursor.pc = "closed" /\ cursor.closes = 1 /\ cursor.pos < Len(cursor.result)
\* The other ways a run ends: a fetch raised, in either mode; the consumer
\* stopped at a chunk of the buffered mode
FetchRaisedStreaming ==
    gen.pc = "raised" /\ streams(cursor) /\ consumer.received # <<>> /\ cursor.closes = 1
FetchRaisedBuffered ==
    gen.pc = "raised" /\ ~streams(cursor) /\ cursor.fetches > 1 /\ cursor.closes = 1
StoppedEarlyBuffered ==
    /\ gen.pc = "closed" /\ gen.started /\ ~streams(cursor) /\ gen.chunks # <<>>
    /\ cursor.closes = 1

\* The rows cut into chunks of size rows, in order
RECURSIVE ChunksOf(_, _)
ChunksOf(rows, size) ==
    IF rows = <<>> THEN <<>>
    ELSE <<First(rows, size)>> \o ChunksOf(SubSeq(rows, Min(size, Len(rows)) + 1, Len(rows)), size)
\* The chunks of the result set, each row cut to its first col_count columns
\* when col_count is given
ChunksToDeliver ==
    LET whole == ChunksOf(cursor.result, gen.itersize)
    IN  [i \in 1..Len(whole) |->
            [r \in 1..Len(whole[i]) |->
                IF gen.col_count = <<>> THEN whole[i][r]
                ELSE First(whole[i][r], gen.col_count[1])]]

\* C15: for the same cursor contents, chunk size, sentinel and column count
\* the buffered and the streaming mode deliver the same sequence of chunks to
\* a consumer that reads to the end: the chunks of the result in fetch order,
\* each row cut to its first col_count columns, the sentinel never among them.
C15_ModesDeliverSameChunks ==
    consumer.pc = "finished" =>
        /\ consumer.received = ChunksToDeliver
        /\ \A i \in 1..Len(consumer.received) : consumer.received[i] # gen.sentinel
C15_Witness ==
    /\ consumer.pc = "finished" /\ ~streams(cursor) /\ gen.col_count = <<1>>
    /\ Len(consumer.received) = 2 /\ Len(cursor.result) = 3
    /\ consumer.received = ChunksToDeliver
ReadToEndStreaming ==
    /\ consumer.pc = "finished" /\ streams(cursor) /\ gen.col_count = <<1>>
    /\ Len(consumer.received) = 2 /\ Len(cursor.result) = 3

\* C16: when the connection does not support multiple concurrent result sets
\* the cursor is closed before the first chunk is delivered: every fetch and
\* the close precede every yield, and the consumer never holds a chunk while
\* the cursor is open.
C16_ClosedBeforeFirstChunk ==
    cursor.supports_mars = <<FALSE>> =>
        /\ \A i, j \in 1..Len(log) : (i < j /\ log[i] = "yield") => log[j] = "yield"
        /\ consumer.received # <<>> =>
              /\ cursor.pc = "closed"
              /\ \E i \in 1..Len(log) : log[i] = "close"
C16_Witness ==
    /\ cursor.supports_mars = <<FALSE>> /\ Len(consumer.received) = 2
    /\ cursor.pc = "closed"
    /\ log = <<"fetch", "fetch", "fetch", "close", "yield", "yield">>

=============================================================================
